---- MODULE Spec2Model ----
(***************************************************************************)
(* A model of xrtlibrary-traverse (src/core/traverse.ts): the Traverse     *)
(* node, its assertion / navigation / mutation / iteration methods, the    *)
(* WrapObject entry point and the helpers of core/type (IsInstanceOf,      *)
(* IsSameType).                                                            *)
(*                                                                         *)
(* JavaScript values are tagged records.  Strings are tuples of            *)
(* one-character strings, so that path building and character tests are    *)
(* computed the way the code computes them.  Arrays, plain objects, Maps   *)
(* and Sets live in heap and are referred to by address, so that an        *)
(* in-place mutation is seen through every reference.                      *)
(***************************************************************************)
EXTENDS Integers, Sequences, FiniteSets, TLC

VARIABLES
    heap,   \* address -> object: its class, own named properties (keys, vals),
            \* array elements or set members (items), map entries (mk, mv)
    nodes,  \* the Traverse objects constructed so far (identity = index)
    last,   \* the last completed call: operation, receiver, arguments, outcome
    it,     \* the arrayForEach call in progress (its locals), if any
    ncalls  \* the number of calls made so far

vars == <<heap, nodes, last, it, ncalls>>

(***************************************************************************)
(* Bounds of the model.                                                    *)
(***************************************************************************)
MaxCalls == 2
MaxArrLen == 3
MaxIterCalls == 1
MaxWrapCalls == 3
MaxStrLen == 3
MaxTextCalls == 1
MaxJsonCalls == 3
MaxMemoCalls == 3
MaxNestCalls == 2
MaxListCalls == 3

(***************************************************************************)
(* JavaScript values.                                                      *)
(***************************************************************************)
Null == [t |-> "null"]
Undefined == [t |-> "undefined"]
Num(n) == [t |-> "number", n |-> n, d |-> 1]
Half == [t |-> "number", n |-> 1, d |-> 2]
NaN == [t |-> "number", n |-> 0, d |-> 0]
Bool(b) == [t |-> "boolean", b |-> b]
Str(s) == [t |-> "string", s |-> s]
Obj(a) == [t |-> "object", a |-> a]
Fn(f) == [t |-> "function", f |-> f]
NodeRef(i) == [t |-> "traverse", i |-> i]
\* The engine function that is member k of the prototype of class home.
Native(home, k) == [t |-> "native", k |-> k, home |-> home]
\* The Map in which node i keeps its type checks (its field pckTypeOf).
PckTypeOfMap(i) == [t |-> "pckTypeOf", i |-> i]
RegExp(re) == [t |-> "regexp", re |-> re]

\* The typeof operator.
TypeOfTag(v) ==
    CASE v.t = "null" -> "object"
      [] v.t = "regexp" -> "object"
      [] v.t = "traverse" -> "object"
      [] v.t = "pckTypeOf" -> "object"
      [] v.t = "native" -> "function"
      [] OTHER -> v.t

IsNullish(v) == v.t \in {"null", "undefined"}

\* The class an object was constructed by (its prototype chain starts there).
ClassOf(v, h) ==
    CASE v.t = "object" -> h[v.a].cls
      [] v.t = "traverse" -> "Traverse"
      [] v.t = "pckTypeOf" -> "Map"
      [] v.t = "regexp" -> "RegExp"
      [] v.t \in {"function", "native"} -> "Function"
      [] OTHER -> "none"

\* The builtin constructors: the names on an object's prototype chain.
ProtoChain(cls) == IF cls = "none" THEN {} ELSE {cls, "Object"}

K_constructor == <<"c", "o", "n", "s", "t", "r", "u", "c", "t", "o", "r">>

\* A function, a node and a RegExp are objects too, and a property can be
\* written on them.  The heap holds the properties written on such a value in
\* a record of its own, made at the first write: its items are the value it
\* belongs to.  PropsAt is the place of that record, 0 when nothing was
\* written (and for a primitive).
PropsAt(v, h) ==
    IF v.t \in {"function", "native", "traverse", "regexp"}
       /\ \E i \in DOMAIN h : h[i].cls = ClassOf(v, h) /\ h[i].items = <<v>>
    THEN CHOOSE i \in DOMAIN h : h[i].cls = ClassOf(v, h) /\ h[i].items = <<v>>
    ELSE 0

\* The place in the heap of the properties of an object, 0 without one.
OwnAt(v, h) == IF v.t = "object" THEN v.a ELSE PropsAt(v, h)

\* instance.constructor (not defined for null and undefined: the read throws):
\* an object's own property of that name comes before the inherited one.
ConstructorOf(v, h) ==
    CASE v.t = "number" -> Fn("Number")
      [] v.t = "boolean" -> Fn("Boolean")
      [] v.t = "string" -> Fn("String")
      [] OwnAt(v, h) > 0
         /\ (\E i \in DOMAIN h[OwnAt(v, h)].keys : h[OwnAt(v, h)].keys[i] = K_constructor) ->
            h[OwnAt(v, h)].vals[CHOOSE i \in DOMAIN h[OwnAt(v, h)].keys :
                                    h[OwnAt(v, h)].keys[i] = K_constructor]
      [] OTHER -> Fn(ClassOf(v, h))

\* instance instanceof ctor, for a callable ctor.
InstanceOf(v, ctor, h) == ctor.t = "function" /\ ctor.f \in ProtoChain(ClassOf(v, h))

PrimitiveCtors == {Fn("Number"), Fn("Boolean"), Fn("String")}

\* core/type IsInstanceOf: whether the call throws an engine TypeError (reading
\* .constructor of null or undefined, or instanceof a non-callable).
IsInstanceOfThrows(instance, ctor) ==
    IF ctor \in PrimitiveCtors
    THEN IsNullish(instance)
    ELSE ctor.t # "function"

\* core/type IsInstanceOf: its result when it does not throw.
IsInstanceOf(instance, ctor, h) ==
    IF ctor \in PrimitiveCtors
    THEN ConstructorOf(instance, h) = ctor
    ELSE InstanceOf(instance, ctor, h)

\* core/type IsSameType: whether the call throws an engine TypeError (it reads
\* instance2.constructor once the null, undefined and typeof tests passed).
IsSameTypeThrows(i1, i2) ==
    /\ ~((i1.t = "null") # (i2.t = "null"))
    /\ ~((i1.t = "undefined") # (i2.t = "undefined"))
    /\ TypeOfTag(i1) = TypeOfTag(i2)
    /\ IsNullish(i2)

\* core/type IsSameType: its result when it does not throw.
IsSameType(i1, i2, h) ==
    /\ ~((i1.t = "null") # (i2.t = "null"))
    /\ ~((i1.t = "undefined") # (i2.t = "undefined"))
    /\ TypeOfTag(i1) = TypeOfTag(i2)
    /\ IsInstanceOf(i1, ConstructorOf(i2, h), h)

(***************************************************************************)
(* Strings: tuples of characters.                                          *)
(***************************************************************************)
Ascii ==
    <<" ", "!", "\"", "#", "$", "%", "&", "'", "(", ")", "*", "+", ",", "-", ".", "/",
      "0", "1", "2", "3", "4", "5", "6", "7", "8", "9", ":", ";", "<", "=", ">", "?",
      "@", "A", "B", "C", "D", "E", "F", "G", "H", "I", "J", "K", "L", "M", "N", "O",
      "P", "Q", "R", "S", "T", "U", "V", "W", "X", "Y", "Z", "[", "\\", "]", "^", "_",
      "grave", "a", "b", "c", "d", "e", "f", "g", "h", "i", "j", "k", "l", "m", "n", "o",
      "p", "q", "r", "s", "t", "u", "v", "w", "x", "y", "z", "{", "|", "}", "~">>

\* The code unit of a character (the table is ASCII 32..126 in order; the grave
\* accent, code 96, is not a character of the model's strings).
CharCode(c) == 31 + (CHOOSE i \in 1..Len(Ascii) : Ascii[i] = c)

Digits == <<"0", "1", "2", "3", "4", "5", "6", "7", "8", "9">>

RECURSIVE NatToStr(_)
NatToStr(n) == IF n < 10 THEN <<Digits[n + 1]>> ELSE NatToStr(n \div 10) \o <<Digits[(n % 10) + 1]>>

Abs(n) == IF n < 0 THEN -n ELSE n

\* Number to string: integers, halves and NaN are the numbers of the model.
NumToStr(v) ==
    IF v.d = 0 THEN <<"N", "a", "N">>
    ELSE (IF v.n < 0 THEN <<"-">> ELSE <<>>)
         \o NatToStr(Abs(v.n) \div v.d)
         \o (IF v.d = 1 THEN <<>> ELSE <<".", "5">>)

\* a < b on strings: by code units, a proper prefix being smaller.
RECURSIVE StrLess(_, _)
StrLess(a, b) ==
    IF b = <<>> THEN FALSE
    ELSE IF a = <<>> THEN TRUE
    ELSE IF a[1] = b[1] THEN StrLess(Tail(a), Tail(b))
    ELSE CharCode(a[1]) < CharCode(b[1])

\* The name of a function, in characters: a member of a prototype is named
\* by its key, a builtin constructor by its class; the source text of any
\* other function of the model is never asked for.
FunctionName(v) ==
    CASE v.t = "native" -> v.k
      [] v.f = "String" -> <<"S", "t", "r", "i", "n", "g">>
      [] v.f = "Number" -> <<"N", "u", "m", "b", "e", "r">>
      [] v.f = "Boolean" -> <<"B", "o", "o", "l", "e", "a", "n">>
      [] v.f = "Object" -> <<"O", "b", "j", "e", "c", "t">>
      [] v.f = "Array" -> <<"A", "r", "r", "a", "y">>
      [] OTHER -> <<>>

\* Function.prototype.toString of an engine function.
FunctionText(v) ==
    <<"f", "u", "n", "c", "t", "i", "o", "n", " ">> \o FunctionName(v)
    \o <<"(", ")", " ", "{", " ", "[", "n", "a", "t", "i", "v", "e", " ", "c", "o", "d", "e",
         "]", " ", "}">>

\* The length property of an engine function: the number of its declared
\* parameters (1 for the builtin constructors, 0 for toString and valueOf).
FunctionLength(v) == IF v.t = "function" /\ FunctionName(v) # <<>> THEN 1 ELSE 0

\* The string conversion of a value (String(v), string concatenation, a
\* template literal).
RECURSIVE ToStr(_, _)
RECURSIVE JoinItems(_, _)
JoinItems(items, h) ==
    IF items = <<>> THEN <<>>
    ELSE (IF IsNullish(items[1]) THEN <<>> ELSE ToStr(items[1], h))
         \o (IF Len(items) = 1 THEN <<>> ELSE <<",">> \o JoinItems(Tail(items), h))

ToStr(v, h) ==
    CASE v.t = "null" -> <<"n", "u", "l", "l">>
      [] v.t = "undefined" -> <<"u", "n", "d", "e", "f", "i", "n", "e", "d">>
      [] v.t = "boolean" -> IF v.b THEN <<"t", "r", "u", "e">> ELSE <<"f", "a", "l", "s", "e">>
      [] v.t = "number" -> NumToStr(v)
      [] v.t = "string" -> v.s
      [] v.t = "object" /\ h[v.a].cls = "Array" -> JoinItems(h[v.a].items, h)
      [] v.t = "object" /\ h[v.a].cls = "Map" ->
            <<"[", "o", "b", "j", "e", "c", "t", " ", "M", "a", "p", "]">>
      [] v.t = "object" /\ h[v.a].cls = "Set" ->
            <<"[", "o", "b", "j", "e", "c", "t", " ", "S", "e", "t", "]">>
      [] v.t \in {"function", "native"} -> FunctionText(v)
      [] OTHER -> <<"[", "o", "b", "j", "e", "c", "t", " ", "O", "b", "j", "e", "c", "t", "]">>

(***************************************************************************)
(* Properties of objects: the in operator and the [] read, which both      *)
(* follow the prototype chain.                                             *)
(***************************************************************************)
ObjectProtoKeys ==
    {<<"c", "o", "n", "s", "t", "r", "u", "c", "t", "o", "r">>,
     <<"_", "_", "d", "e", "f", "i", "n", "e", "G", "e", "t", "t", "e", "r", "_", "_">>,
     <<"_", "_", "d", "e", "f", "i", "n", "e", "S", "e", "t", "t", "e", "r", "_", "_">>,
     <<"h", "a", "s", "O", "w", "n", "P", "r", "o", "p", "e", "r", "t", "y">>,
     <<"_", "_", "l", "o", "o", "k", "u", "p", "G", "e", "t", "t", "e", "r", "_", "_">>,
     <<"_", "_", "l", "o", "o", "k", "u", "p", "S", "e", "t", "t", "e", "r", "_", "_">>,
     <<"i", "s", "P", "r", "o", "t", "o", "t", "y", "p", "e", "O", "f">>,
     <<"p", "r", "o", "p", "e", "r", "t", "y", "I", "s", "E", "n", "u", "m", "e", "r", "a", "b", "l", "e">>,
     <<"t", "o", "S", "t", "r", "i", "n", "g">>,
     <<"v", "a", "l", "u", "e", "O", "f">>,
     <<"_", "_", "p", "r", "o", "t", "o", "_", "_">>,
     <<"t", "o", "L", "o", "c", "a", "l", "e", "S", "t", "r", "i", "n", "g">>}

ArrayProtoKeys ==
    {<<"c", "o", "n", "c", "a", "t">>,
     <<"c", "o", "p", "y", "W", "i", "t", "h", "i", "n">>,
     <<"f", "i", "l", "l">>,
     <<"f", "i", "n", "d">>,
     <<"f", "i", "n", "d", "I", "n", "d", "e", "x">>,
     <<"l", "a", "s", "t", "I", "n", "d", "e", "x", "O", "f">>,
     <<"p", "o", "p">>,
     <<"p", "u", "s", "h">>,
     <<"r", "e", "v", "e", "r", "s", "e">>,
     <<"s", "h", "i", "f", "t">>,
     <<"u", "n", "s", "h", "i", "f", "t">>,
     <<"s", "l", "i", "c", "e">>,
     <<"s", "o", "r", "t">>,
     <<"s", "p", "l", "i", "c", "e">>,
     <<"i", "n", "c", "l", "u", "d", "e", "s">>,
     <<"i", "n", "d", "e", "x", "O", "f">>,
     <<"j", "o", "i", "n">>,
     <<"k", "e", "y", "s">>,
     <<"e", "n", "t", "r", "i", "e", "s">>,
     <<"v", "a", "l", "u", "e", "s">>,
     <<"f", "o", "r", "E", "a", "c", "h">>,
     <<"f", "i", "l", "t", "e", "r">>,
     <<"f", "l", "a", "t">>,
     <<"f", "l", "a", "t", "M", "a", "p">>,
     <<"m", "a", "p">>,
     <<"e", "v", "e", "r", "y">>,
     <<"s", "o", "m", "e">>,
     <<"r", "e", "d", "u", "c", "e">>,
     <<"r", "e", "d", "u", "c", "e", "R", "i", "g", "h", "t">>}

TraverseProtoKeys ==
    {<<"_", "G", "e", "t", "O", "b", "j", "e", "c", "t", "R", "e", "p", "r", "e", "s", "e", "n", "t", "a", "t", "i", "o", "n">>,
     <<"_", "G", "e", "t", "S", "u", "b", "P", "a", "t", "h">>,
     <<"t", "y", "p", "e", "O", "f">>,
     <<"n", "u", "m", "e", "r", "i", "c">>,
     <<"i", "n", "t", "e", "g", "e", "r">>,
     <<"b", "o", "o", "l", "e", "a", "n">>,
     <<"s", "t", "r", "i", "n", "g">>,
     <<"s", "t", "r", "i", "n", "g", "V", "a", "l", "i", "d", "a", "t", "e">>,
     <<"s", "t", "r", "i", "n", "g", "V", "a", "l", "i", "d", "a", "t", "e", "B", "y", "R", "e", "g", "E", "x", "p">>,
     <<"s", "t", "r", "i", "n", "g", "T", "o", "I", "n", "t", "e", "g", "e", "r">>,
     <<"s", "t", "r", "i", "n", "g", "T", "o", "F", "l", "o", "a", "t">>,
     <<"j", "s", "o", "n", "L", "o", "a", "d">>,
     <<"j", "s", "o", "n", "S", "a", "v", "e">>,
     <<"s", "u", "b">>,
     <<"o", "p", "t", "i", "o", "n", "a", "l", "S", "u", "b">>,
     <<"n", "o", "t", "N", "u", "l", "l">>,
     <<"m", "i", "n">>,
     <<"m", "i", "n", "E", "x", "c", "l", "u", "s", "i", "v", "e">>,
     <<"m", "a", "x">>,
     <<"m", "a", "x", "E", "x", "c", "l", "u", "s", "i", "v", "e">>,
     <<"r", "a", "n", "g", "e">>,
     <<"s", "e", "l", "e", "c", "t", "F", "r", "o", "m", "A", "r", "r", "a", "y">>,
     <<"s", "e", "l", "e", "c", "t", "F", "r", "o", "m", "O", "b", "j", "e", "c", "t">>,
     <<"s", "e", "l", "e", "c", "t", "F", "r", "o", "m", "O", "b", "j", "e", "c", "t", "O", "p", "t", "i", "o", "n", "a", "l">>,
     <<"s", "e", "l", "e", "c", "t", "F", "r", "o", "m", "M", "a", "p">>,
     <<"s", "e", "l", "e", "c", "t", "F", "r", "o", "m", "M", "a", "p", "O", "p", "t", "i", "o", "n", "a", "l">>,
     <<"o", "b", "j", "e", "c", "t", "F", "o", "r", "E", "a", "c", "h">>,
     <<"o", "b", "j", "e", "c", "t", "F", "o", "r", "E", "a", "c", "h", "E", "x">>,
     <<"o", "b", "j", "e", "c", "t", "S", "e", "t">>,
     <<"o", "b", "j", "e", "c", "t", "H", "a", "s">>,
     <<"a", "r", "r", "a", "y", "L", "e", "n", "g", "t", "h">>,
     <<"a", "r", "r", "a", "y", "G", "e", "t", "I", "t", "e", "m">>,
     <<"a", "r", "r", "a", "y", "S", "e", "t", "I", "t", "e", "m">>,
     <<"a", "r", "r", "a", "y", "P", "u", "s", "h", "I", "t", "e", "m">>,
     <<"a", "r", "r", "a", "y", "P", "o", "p", "I", "t", "e", "m">>,
     <<"a", "r", "r", "a", "y", "S", "h", "i", "f", "t", "I", "t", "e", "m">>,
     <<"a", "r", "r", "a", "y", "U", "n", "s", "h", "i", "f", "t", "I", "t", "e", "m">>,
     <<"a", "r", "r", "a", "y", "F", "o", "r", "E", "a", "c", "h">>,
     <<"a", "r", "r", "a", "y", "F", "o", "r", "E", "a", "c", "h", "W", "i", "t", "h", "D", "e", "l", "e", "t", "i", "o", "n">>,
     <<"a", "r", "r", "a", "y", "M", "i", "n", "L", "e", "n", "g", "t", "h">>,
     <<"a", "r", "r", "a", "y", "M", "a", "x", "L", "e", "n", "g", "t", "h">>,
     <<"i", "s", "N", "u", "l", "l">>,
     <<"o", "n", "e", "O", "f">>,
     <<"c", "u", "s", "t", "o", "m", "R", "u", "l", "e">>,
     <<"i", "n", "n", "e", "r">>,
     <<"u", "n", "w", "r", "a", "p">>}

K_length == <<"l", "e", "n", "g", "t", "h">>
K_inner == <<"_", "i", "n", "n", "e", "r">>
K_path == <<"p", "a", "t", "h">>
K_pckNotNull == <<"p", "c", "k", "N", "o", "t", "N", "u", "l", "l">>
K_pckTypeOf == <<"p", "c", "k", "T", "y", "p", "e", "O", "f">>

\* Position of key k among the own keys ks (0: none).
IndexOfKey(ks, k) ==
    IF \E i \in 1..Len(ks) : ks[i] = k
    THEN CHOOSE i \in 1..Len(ks) : ks[i] = k
    ELSE 0

\* The array index a property name denotes (-1: none).
ArrayIndexOf(k, len) ==
    IF \E i \in 0..(len - 1) : NatToStr(i) = k
    THEN CHOOSE i \in 0..(len - 1) : NatToStr(i) = k
    ELSE -1

MapProtoKeys ==
    {<<"g", "e", "t">>,
     <<"s", "e", "t">>,
     <<"h", "a", "s">>,
     <<"d", "e", "l", "e", "t", "e">>,
     <<"c", "l", "e", "a", "r">>,
     <<"e", "n", "t", "r", "i", "e", "s">>,
     <<"f", "o", "r", "E", "a", "c", "h">>,
     <<"k", "e", "y", "s">>,
     <<"v", "a", "l", "u", "e", "s">>,
     <<"s", "i", "z", "e">>}

SetProtoKeys ==
    {<<"h", "a", "s">>,
     <<"a", "d", "d">>,
     <<"d", "e", "l", "e", "t", "e">>,
     <<"c", "l", "e", "a", "r">>,
     <<"e", "n", "t", "r", "i", "e", "s">>,
     <<"f", "o", "r", "E", "a", "c", "h">>,
     <<"k", "e", "y", "s">>,
     <<"v", "a", "l", "u", "e", "s">>,
     <<"s", "i", "z", "e">>}

\* The names an object of class cls inherits.
InheritedKeys(cls) ==
    ObjectProtoKeys
    \cup (IF cls = "Array" THEN ArrayProtoKeys ELSE {})
    \cup (IF cls = "Map" THEN MapProtoKeys ELSE {})
    \cup (IF cls = "Set" THEN SetProtoKeys ELSE {})
    \cup (IF cls = "Traverse" THEN TraverseProtoKeys ELSE {})

\* Whether the object itself holds property k (a string).
HasOwnProperty(v, k, h) ==
    CASE v.t = "object" ->
            \/ IndexOfKey(h[v.a].keys, k) > 0
            \/ /\ h[v.a].cls = "Array"
               /\ (k = K_length \/ ArrayIndexOf(k, Len(h[v.a].items)) >= 0)
      [] v.t = "traverse" ->
            \/ k \in {K_inner, K_path, K_pckNotNull, K_pckTypeOf}
            \/ PropsAt(v, h) > 0 /\ IndexOfKey(h[PropsAt(v, h)].keys, k) > 0
      [] OTHER -> PropsAt(v, h) > 0 /\ IndexOfKey(h[PropsAt(v, h)].keys, k) > 0

\* (k in v) for an object v and a string k.
HasProperty(v, k, h) == HasOwnProperty(v, k, h) \/ k \in InheritedKeys(ClassOf(v, h))

\* The prototype an object gets its inherited member k from: the prototype
\* of its own class when that defines k, else Object.prototype.
MemberHome(v, k, h) ==
    LET cls == ClassOf(v, h)
        toStrings == {<<"t", "o", "S", "t", "r", "i", "n", "g">>,
                      <<"t", "o", "L", "o", "c", "a", "l", "e", "S", "t", "r", "i", "n", "g">>}
        defined == CASE cls = "Array" -> ArrayProtoKeys \cup toStrings
                     [] cls = "Map" -> MapProtoKeys
                     [] cls = "Set" -> SetProtoKeys
                     [] cls = "Traverse" -> TraverseProtoKeys
                     [] cls \in {"Function", "RegExp"} -> {<<"t", "o", "S", "t", "r", "i", "n", "g">>}
                     [] OTHER -> {}
    IN  IF k \in defined THEN cls ELSE "Object"

K_size == <<"s", "i", "z", "e">>

\* v[k] for an object v and a string k: an own property first; then the
\* inherited constructor (the class), the accessor size of a Map or a Set
\* (the number of entries), and any other inherited member, an engine
\* function of the prototype that defines it.
GetProperty(v, k, h, ns) ==
    CASE v.t = "object" /\ h[v.a].cls = "Array" /\ k = K_length -> Num(Len(h[v.a].items))
      [] v.t = "object" /\ h[v.a].cls = "Array" /\ ArrayIndexOf(k, Len(h[v.a].items)) >= 0 ->
            h[v.a].items[ArrayIndexOf(k, Len(h[v.a].items)) + 1]
      [] v.t = "object" /\ IndexOfKey(h[v.a].keys, k) > 0 ->
            h[v.a].vals[IndexOfKey(h[v.a].keys, k)]
      [] PropsAt(v, h) > 0 /\ IndexOfKey(h[PropsAt(v, h)].keys, k) > 0 ->
            h[PropsAt(v, h)].vals[IndexOfKey(h[PropsAt(v, h)].keys, k)]
      [] v.t = "traverse" /\ k = K_inner -> ns[v.i].inner
      [] v.t = "traverse" /\ k = K_path -> Str(ns[v.i].path)
      [] v.t = "traverse" /\ k = K_pckNotNull -> Bool(ns[v.i].pckNotNull)
      [] v.t = "traverse" /\ k = K_pckTypeOf -> PckTypeOfMap(v.i)
      [] v.t = "string" /\ ArrayIndexOf(k, Len(v.s)) >= 0 ->
            Str(<<v.s[ArrayIndexOf(k, Len(v.s)) + 1]>>)
      [] k = K_constructor /\ ~IsNullish(v) -> ConstructorOf(v, h)
      [] k = K_size /\ v.t = "object" /\ h[v.a].cls = "Map" -> Num(Len(h[v.a].mk))
      [] k = K_size /\ v.t = "object" /\ h[v.a].cls = "Set" -> Num(Len(h[v.a].items))
      [] k \in InheritedKeys(ClassOf(v, h)) -> Native(MemberHome(v, k, h), k)
      [] OTHER -> Undefined

\* The own enumerable property names, in for-in order (indices first).
RECURSIVE IndexKeys(_, _)
IndexKeys(i, len) == IF i >= len THEN <<>> ELSE <<NatToStr(i)>> \o IndexKeys(i + 1, len)

EnumerableKeys(v, h) ==
    CASE v.t = "object" /\ h[v.a].cls = "Array" -> IndexKeys(0, Len(h[v.a].items)) \o h[v.a].keys
      [] v.t = "object" -> h[v.a].keys
      [] v.t = "traverse" ->
            <<K_pckNotNull, K_pckTypeOf, K_inner, K_path>>
            \o (IF PropsAt(v, h) > 0 THEN h[PropsAt(v, h)].keys ELSE <<>>)
      [] PropsAt(v, h) > 0 -> h[PropsAt(v, h)].keys
      [] OTHER -> <<>>

\* Map.prototype.has / get and Set.prototype.has: keys are compared by
\* SameValueZero, which is equality of the model's values (one zero, one NaN,
\* objects by address).
MapHas(m, k, h) == \E i \in 1..Len(h[m.a].mk) : h[m.a].mk[i] = k
MapGet(m, k, h) == h[m.a].mv[CHOOSE i \in 1..Len(h[m.a].mk) : h[m.a].mk[i] = k]
SetHas(m, k, h) == \E i \in 1..Len(h[m.a].items) : h[m.a].items[i] = k

\* a === b
StrictEquals(a, b) == a = b /\ a # NaN

\* Array.prototype.indexOf(x) >= 0
ArrayIncludesStrict(arr, x, h) ==
    \E i \in 1..Len(h[arr.a].items) : StrictEquals(h[arr.a].items[i], x)

\* obj[k] = value on a heap object (k a string).
SetHeapProperty(v, k, value, h) ==
    LET o == h[v.a]
        ai == IF o.cls = "Array" THEN ArrayIndexOf(k, Len(o.items) + 1) ELSE -1
        ki == IndexOfKey(o.keys, k)
    IN  IF ai >= 0 /\ ai < Len(o.items)
        THEN [h EXCEPT ![v.a].items[ai + 1] = value]
        ELSE IF ai = Len(o.items) /\ ai >= 0
        THEN [h EXCEPT ![v.a].items = Append(@, value)]
        ELSE IF ki > 0
        THEN [h EXCEPT ![v.a].vals[ki] = value]
        ELSE [h EXCEPT ![v.a].keys = Append(@, k), ![v.a].vals = Append(@, value)]

\* obj[k] = value (k a string) on whatever passed typeOf(Object): a heap
\* object, or a function, a node or a RegExp.
SetProperty(v, k, value, h) ==
    IF v.t = "object" THEN SetHeapProperty(v, k, value, h)
    ELSE LET i == PropsAt(v, h)
         IN  IF i = 0
             THEN Append(h, [cls |-> ClassOf(v, h), keys |-> <<k>>, vals |-> <<value>>,
                             items |-> <<v>>, mk |-> <<>>, mv |-> <<>>])
             ELSE IF IndexOfKey(h[i].keys, k) > 0
             THEN [h EXCEPT ![i].vals[IndexOfKey(h[i].keys, k)] = value]
             ELSE [h EXCEPT ![i].keys = Append(@, k), ![i].vals = Append(@, value)]

(***************************************************************************)
(* core/text/detector and core/validator.                                  *)
(***************************************************************************)
IsDigit(c) == c \in {"0", "1", "2", "3", "4", "5", "6", "7", "8", "9"}

\* (0|[1-9]([0-9]*))
IsIntegerBody(s) ==
    \/ s = <<"0">>
    \/ /\ Len(s) >= 1
       /\ IsDigit(s[1]) /\ s[1] # "0"
       /\ \A i \in 2..Len(s) : IsDigit(s[i])

\* REGEX_INTEGER = /^-?(0|[1-9]([0-9]*))$/
IsInteger(s) ==
    IsIntegerBody(IF s # <<>> /\ s[1] = "-" THEN Tail(s) ELSE s)

\* A faulty variant of IsNumericStrict: the digits after the point may be
\* missing.
IsNumericStrictAllowsBarePoint(s) ==
    \/ IsInteger(s)
    \/ \E k \in 1..Len(s) :
          /\ s[k] = "."
          /\ IsInteger(SubSeq(s, 1, k - 1))
          /\ \A i \in (k + 1)..Len(s) : IsDigit(s[i])

\* REGEX_NUMERIC_STRICT = /^(-?(0|[1-9]([0-9]*)))(\.[0-9]+)?$/
IsNumericStrict(s) ==
    \/ IsInteger(s)
    \/ \E k \in 1..Len(s) :
          /\ s[k] = "."
          /\ IsInteger(SubSeq(s, 1, k - 1))
          /\ k < Len(s)
          /\ \A i \in (k + 1)..Len(s) : IsDigit(s[i])

\* String.prototype.indexOf(p) >= 0
StringIncludes(s, p) ==
    \E k \in 0..(Len(s) - Len(p)) : SubSeq(s, k + 1, k + Len(p)) = p

\* text[0], ..., text[text.length - 1]: the characters of a string, the
\* items of an array, nothing at the indices below the length of a function;
\* any other object of the model has no length, and the loop over it never
\* runs.
Elements(text, h) ==
    CASE text.t = "string" -> [i \in 1..Len(text.s) |-> Str(<<text.s[i]>>)]
      [] text.t = "object" /\ h[text.a].cls = "Array" -> h[text.a].items
      [] text.t \in {"function", "native"} -> [i \in 1..FunctionLength(text) |-> Undefined]
      [] OTHER -> <<>>

\* ValidateString: charTable.indexOf(text[i]) >= 0 for every i < text.length
\* (indexOf converts what it searches for to a string).
ValidateString(text, charTable, h) ==
    \A i \in DOMAIN Elements(text, h) :
        StringIncludes(charTable, ToStr(Elements(text, h)[i], h))

\* RegExp.prototype.test for the patterns of the model.
RegExpTest(re, s) ==
    CASE re.re = "INTEGER" -> IsInteger(s)
      [] re.re = "NUMERIC_STRICT" -> IsNumericStrict(s)
      [] OTHER -> FALSE

(***************************************************************************)
(* The Traverse object.                                                    *)
(***************************************************************************)
\* constructor(inner, path); pckTypeOf is a set of <<constructor, passed>>.
NewNode(inner, path) ==
    [inner |-> inner, path |-> path, pckNotNull |-> FALSE, pckTypeOf |-> {}]

RootPath == <<"/">>

\* _GetSubPath(name), name already converted to a string.
GetSubPath(path, name) ==
    IF Len(path) = 0 \/ path[Len(path)] = "/"
    THEN path \o name
    ELSE path \o <<"/">> \o name

\* "[" + offset + "]"
IndexSegment(i) == <<"[">> \o NumToStr(Num(i)) \o <<"]">>

\* Outcomes: "ok", one of the Traverse error classes, or "EngineTypeError"
\* (the JavaScript engine's own TypeError, which is no Traverse.Error).
TraverseErrors ==
    {"Error", "ParameterError", "TypeError", "FormatError", "ParseError", "SizeError",
     "KeyNotFoundError", "IndexOutOfRangeError", "ValueOutOfRangeError"}

OkN(n) == [out |-> "ok", n |-> n]
ThrowN(kind, n) == [out |-> kind, n |-> n]

\* isNull()
IsNull(n) == n.inner = Null

\* notNull(): the outcome and the node with its cache written.
NotNullN(n) ==
    IF n.pckNotNull THEN OkN(n)
    ELSE IF n.inner = Null THEN ThrowN("TypeError", n)
    ELSE OkN([n EXCEPT !.pckNotNull = TRUE])

PckHas(n, ctor) == \E p \in n.pckTypeOf : p[1] = ctor
PckGet(n, ctor) == (CHOOSE p \in n.pckTypeOf : p[1] = ctor)[2]
PckSet(n, ctor, passed) ==
    [n EXCEPT !.pckTypeOf = {p \in @ : p[1] # ctor} \cup {<<ctor, passed>>}]

\* typeOf(constructor)
\* A faulty variant of TypeOfN: null is tested like any other value.
TypeOfNWithoutNullPass(n, ctor, h) ==
    IF ~IsInstanceOf(ctor, Fn("Function"), h) THEN ThrowN("ParameterError", n)
    ELSE IF PckHas(n, ctor)
    THEN (IF PckGet(n, ctor) THEN OkN(n) ELSE ThrowN("TypeError", n))
    ELSE IF IsInstanceOfThrows(n.inner, ctor)
    THEN ThrowN("EngineTypeError", n)
    ELSE IF ~IsInstanceOf(n.inner, ctor, h)
    THEN ThrowN("TypeError", PckSet(n, ctor, FALSE))
    ELSE OkN(PckSet(n, ctor, TRUE))

TypeOfN(n, ctor, h) ==
    IF ~IsInstanceOf(ctor, Fn("Function"), h) THEN ThrowN("ParameterError", n)
    ELSE IF PckHas(n, ctor)
    THEN (IF PckGet(n, ctor) THEN OkN(n) ELSE ThrowN("TypeError", n))
    ELSE IF n.inner # Null /\ IsInstanceOfThrows(n.inner, ctor)
    THEN ThrowN("EngineTypeError", n)
    ELSE IF n.inner # Null /\ ~IsInstanceOf(n.inner, ctor, h)
    THEN ThrowN("TypeError", PckSet(n, ctor, FALSE))
    ELSE OkN(PckSet(n, ctor, TRUE))

\* numeric(), boolean(), string()
NumericN(n, h) == TypeOfN(n, Fn("Number"), h)
BooleanN(n, h) == TypeOfN(n, Fn("Boolean"), h)
StringN(n, h) == TypeOfN(n, Fn("String"), h)

\* Number.isInteger
NumberIsInteger(v) == v.t = "number" /\ v.d = 1

\* integer()
IntegerN(n, h) ==
    IF n.inner # Null
    THEN LET r == NumericN(n, h)
         IN  IF r.out # "ok" THEN r
             ELSE IF ~NumberIsInteger(n.inner) THEN ThrowN("TypeError", r.n)
             ELSE r
    ELSE OkN(n)

\* this.notNull().typeOf(ctor)
NotNullTypeOfN(n, ctor, h) ==
    LET r == NotNullN(n)
    IN  IF r.out # "ok" THEN r ELSE TypeOfN(r.n, ctor, h)

(***************************************************************************)
(* The result of a public method: the outcome, what is returned (the node  *)
(* itself, a new node, or a plain value), the receiver with its caches,    *)
(* the heap, the node constructed if any, how many times the callback and  *)
(* the comparator were invoked, and the nodes handed to the callback.      *)
(***************************************************************************)
RSelf == [t |-> "self"]
RNew == [t |-> "new"]
RNone == [t |-> "none"]

ResultK(out, ret, n, h, new, cb, cmp, kids) ==
    [out |-> out, ret |-> ret, n |-> n, h |-> h, new |-> new, cb |-> cb, cmp |-> cmp,
     kids |-> kids]

Result(out, ret, n, h, new, cb, cmp) == ResultK(out, ret, n, h, new, cb, cmp, <<>>)

Fail(kind, n, h) == Result(kind, RNone, n, h, <<>>, 0, 0)
RetSelf(n, h) == Result("ok", RSelf, n, h, <<>>, 0, 0)
RetNew(n, h, inner, path) == Result("ok", RNew, n, h, <<NewNode(inner, path)>>, 0, 0)
RetVal(n, h, v) == Result("ok", v, n, h, <<>>, 0, 0)

\* A method that is an assertion on the node alone: self, or the failure.
Assertion(r, h) == IF r.out = "ok" THEN RetSelf(r.n, h) ELSE Fail(r.out, r.n, h)

typeOf(n, ctor, h) == Assertion(TypeOfN(n, ctor, h), h)
numeric(n, h) == Assertion(NumericN(n, h), h)
integer(n, h) == Assertion(IntegerN(n, h), h)
boolean(n, h) == Assertion(BooleanN(n, h), h)
string(n, h) == Assertion(StringN(n, h), h)
notNull(n, h) == Assertion(NotNullN(n), h)
isNull(n, h) == RetVal(n, h, Bool(IsNull(n)))
unwrap(n, h) == RetVal(n, h, n.inner)

\* stringValidate(charTable)
stringValidate(n, charTable, h) ==
    IF IsInstanceOfThrows(charTable, Fn("String")) THEN Fail("EngineTypeError", n, h)
    ELSE IF ~IsInstanceOf(charTable, Fn("String"), h) THEN Fail("ParameterError", n, h)
    ELSE IF ~IsNull(n)
    THEN LET r == StringN(n, h)
         IN  IF r.out # "ok" THEN Fail(r.out, r.n, h)
             ELSE IF ~ValidateString(n.inner, charTable.s, h) THEN Fail("FormatError", r.n, h)
             ELSE RetSelf(r.n, h)
    ELSE RetSelf(n, h)

\* stringValidateByRegExp(re)
stringValidateByRegExp(n, re, h) ==
    IF ~IsInstanceOf(re, Fn("RegExp"), h) THEN Fail("ParameterError", n, h)
    ELSE IF ~IsNull(n)
    THEN LET r == StringN(n, h)
         IN  IF r.out # "ok" THEN Fail(r.out, r.n, h)
             ELSE IF ~RegExpTest(re, ToStr(n.inner, h)) THEN Fail("FormatError", r.n, h)
             ELSE RetSelf(r.n, h)
    ELSE RetSelf(n, h)

\* parseInt(text, 10) of a text IsInteger accepts.
RECURSIVE DigitsValue(_)
DigitsValue(s) ==
    IF s = <<>> THEN 0
    ELSE 10 * DigitsValue(SubSeq(s, 1, Len(s) - 1)) + (CharCode(s[Len(s)]) - 48)

ParseInt(s) == IF s[1] = "-" THEN -DigitsValue(Tail(s)) ELSE DigitsValue(s)

\* stringToInteger()
stringToInteger(n, h) ==
    LET r == NotNullTypeOfN(n, Fn("String"), h)
    IN  IF r.out # "ok" THEN Fail(r.out, r.n, h)
        ELSE IF ~IsInteger(ToStr(n.inner, h)) THEN Fail("FormatError", r.n, h)
        ELSE RetNew(r.n, h, Num(ParseInt(ToStr(n.inner, h))),
                    GetSubPath(n.path, <<"[", "s", "t", "r", "-", ">", "i", "n", "t", "]">>))

\* The fraction num/den in lowest terms (den > 0).
RECURSIVE Gcd(_, _)
Gcd(a, b) == IF b = 0 THEN a ELSE Gcd(b, a % b)

Rat(num, den) ==
    LET g == Gcd(Abs(num), den)
    IN  [t |-> "number", n |-> num \div g, d |-> den \div g]

RECURSIVE Pow10(_)
Pow10(k) == IF k = 0 THEN 1 ELSE 10 * Pow10(k - 1)

\* The position of the decimal point in s, or Len(s) + 1 without one.
PointAt(s) ==
    IF \E k \in 1..Len(s) : s[k] = "."
    THEN CHOOSE k \in 1..Len(s) : s[k] = "." /\ \A j \in 1..(k - 1) : s[j] # "."
    ELSE Len(s) + 1

\* parseFloat(s) for a string the strict pattern accepts: the decimal it
\* writes, exactly (the engine rounds it to the nearest double).
ParseFloat(s) ==
    LET k == PointAt(s)
        neg == s # <<>> /\ s[1] = "-"
        whole == SubSeq(s, IF neg THEN 2 ELSE 1, k - 1)
        frac == SubSeq(s, k + 1, Len(s))
        num == DigitsValue(whole) * Pow10(Len(frac)) + DigitsValue(frac)
    IN  Rat(IF neg THEN -num ELSE num, Pow10(Len(frac)))

\* stringToFloat()
stringToFloat(n, h) ==
    LET r == NotNullTypeOfN(n, Fn("String"), h)
    IN  IF r.out # "ok" THEN Fail(r.out, r.n, h)
        ELSE IF ~IsNumericStrict(ToStr(n.inner, h)) THEN Fail("FormatError", r.n, h)
        ELSE RetNew(r.n, h, ParseFloat(ToStr(n.inner, h)),
                    GetSubPath(n.path,
                               <<"[", "s", "t", "r", "-", ">", "f", "l", "o", "a", "t", "]">>))

(***************************************************************************)
(* Traverse.Comparator and the range assertions.                           *)
(***************************************************************************)
\* The relational operators on two values of one typeof: numbers by value (NaN
\* compares false), strings by code units, booleans as 0 and 1, objects by
\* their string conversions.
JsLess(a, b, h) ==
    CASE a.t = "number" /\ b.t = "number" -> a.d # 0 /\ b.d # 0 /\ a.n * b.d < b.n * a.d
      [] a.t = "boolean" /\ b.t = "boolean" -> ~a.b /\ b.b
      [] OTHER -> StrLess(ToStr(a, h), ToStr(b, h))

JsLessEq(a, b, h) ==
    CASE a.t = "number" /\ b.t = "number" -> a.d # 0 /\ b.d # 0 /\ a.n * b.d <= b.n * a.d
      [] a.t = "boolean" /\ b.t = "boolean" -> ~a.b \/ b.b
      [] OTHER -> ~StrLess(ToStr(b, h), ToStr(a, h))

\* A comparator is the default one (new Traverse.Comparator()) or one of the
\* caller's, whose predicates answer cmp.ans.
DefaultComparator == [kind |-> "default"]
CustomComparator(ans) == [kind |-> "custom", ans |-> ans]

ComparatorLt(cmp, a, b, h) == IF cmp.kind = "default" THEN JsLess(a, b, h) ELSE cmp.ans
ComparatorLe(cmp, a, b, h) == IF cmp.kind = "default" THEN JsLessEq(a, b, h) ELSE cmp.ans
ComparatorGt(cmp, a, b, h) == IF cmp.kind = "default" THEN JsLess(b, a, h) ELSE cmp.ans
ComparatorGe(cmp, a, b, h) == IF cmp.kind = "default" THEN JsLessEq(b, a, h) ELSE cmp.ans

\* The common shape of min, minExclusive, max and maxExclusive: the type check,
\* then the comparator predicate (violated).
Threshold(n, threshold, violated, h) ==
    IF n.inner # Null
    THEN IF IsSameTypeThrows(n.inner, threshold) THEN Fail("EngineTypeError", n, h)
         ELSE IF ~IsSameType(n.inner, threshold, h) THEN Fail("ParameterError", n, h)
         ELSE IF violated THEN Result("ValueOutOfRangeError", RNone, n, h, <<>>, 0, 1)
         ELSE Result("ok", RSelf, n, h, <<>>, 0, 1)
    ELSE RetSelf(n, h)

\* A faulty variant of min: the threshold itself is refused.
minRefusesThreshold(n, threshold, cmp, h) ==
    Threshold(n, threshold, ComparatorLe(cmp, n.inner, threshold, h), h)

min(n, threshold, cmp, h) ==
    Threshold(n, threshold, ComparatorLt(cmp, n.inner, threshold, h), h)
minExclusive(n, threshold, cmp, h) ==
    Threshold(n, threshold, ComparatorLe(cmp, n.inner, threshold, h), h)
max(n, threshold, cmp, h) ==
    Threshold(n, threshold, ComparatorGt(cmp, n.inner, threshold, h), h)
maxExclusive(n, threshold, cmp, h) ==
    Threshold(n, threshold, ComparatorGe(cmp, n.inner, threshold, h), h)

\* A faulty variant of range: the upper bound is checked first.
rangeChecksMaxFirst(n, minValue, maxValue, cmp, h) ==
    LET r == max(n, maxValue, cmp, h)
    IN  IF r.out # "ok" THEN r
        ELSE LET q == min(r.n, minValue, cmp, h)
             IN  [q EXCEPT !.cmp = r.cmp + q.cmp]

\* range(minValue, maxValue): this.min(minValue, cmp).max(maxValue, cmp)
range(n, minValue, maxValue, cmp, h) ==
    LET r == min(n, minValue, cmp, h)
    IN  IF r.out # "ok" THEN r
        ELSE LET q == max(r.n, maxValue, cmp, h)
             IN  [q EXCEPT !.cmp = r.cmp + q.cmp]

(***************************************************************************)
(* Navigation.                                                             *)
(***************************************************************************)
\* sub(name) and optionalSub(name, defaultValue) differ in the missing key
\* only: (missing) is the result then.
SubCommon(n, name, missing, h, ns) ==
    LET r == NotNullN(n)
        subPath == GetSubPath(n.path, ToStr(name, h))
    IN  IF r.out # "ok" THEN Fail(r.out, r.n, h)
        ELSE IF IsInstanceOf(n.inner, Fn("Map"), h)
        THEN IF MapHas(n.inner, name, h)
             THEN RetNew(r.n, h, MapGet(n.inner, name, h), subPath)
             ELSE missing
        ELSE IF IsInstanceOf(n.inner, Fn("Object"), h)
        THEN IF IsInstanceOfThrows(name, Fn("String")) THEN Fail("EngineTypeError", r.n, h)
             ELSE IF ~IsInstanceOf(name, Fn("String"), h) THEN Fail("ParameterError", r.n, h)
             ELSE IF HasProperty(n.inner, name.s, h)
             THEN RetNew(r.n, h, GetProperty(n.inner, name.s, h, ns), subPath)
             ELSE missing
        ELSE Fail("TypeError", r.n, h)

sub(n, name, h, ns) ==
    SubCommon(n, name, Fail("KeyNotFoundError", NotNullN(n).n, h), h, ns)

\* A faulty variant of optionalSub: the default is wrapped at the receiver's
\* own path.
optionalSubDefaultAtOwnPath(n, name, defaultValue, h, ns) ==
    SubCommon(n, name, RetNew(NotNullN(n).n, h, defaultValue, n.path), h, ns)

\* optionalSub(name, defaultValue), line by line.
optionalSub(n, name, defaultValue, h, ns) ==
    LET r == NotNullN(n)
        subPath == GetSubPath(n.path, ToStr(name, h))
    IN  IF r.out # "ok" THEN Fail(r.out, r.n, h)
        ELSE IF IsInstanceOf(n.inner, Fn("Map"), h)
        THEN IF MapHas(n.inner, name, h)
             THEN RetNew(r.n, h, MapGet(n.inner, name, h), subPath)
             ELSE RetNew(r.n, h, defaultValue, subPath)
        ELSE IF IsInstanceOf(n.inner, Fn("Object"), h)
        THEN IF IsInstanceOfThrows(name, Fn("String")) THEN Fail("EngineTypeError", r.n, h)
             ELSE IF ~IsInstanceOf(name, Fn("String"), h) THEN Fail("ParameterError", r.n, h)
             ELSE IF HasProperty(n.inner, name.s, h)
             THEN RetNew(r.n, h, GetProperty(n.inner, name.s, h, ns), subPath)
             ELSE RetNew(r.n, h, defaultValue, subPath)
        ELSE Fail("TypeError", r.n, h)

\* The length read of selectFromArray: from.length.
LengthOf(from, h, ns) ==
    CASE from.t = "string" -> Num(Len(from.s))
      [] from.t \in {"object", "traverse"} -> GetProperty(from, K_length, h, ns)
      [] OTHER -> Undefined

\* selectFromArray(from)
selectFromArray(n, from, h, ns) ==
    LET r1 == NotNullN(n)
        r2 == IF r1.out = "ok" THEN IntegerN(r1.n, h) ELSE r1
        r3 == IF r2.out = "ok" THEN min(r2.n, Num(0), DefaultComparator, h)
              ELSE Fail(r2.out, r2.n, h)
        r4 == IF r3.out # "ok" THEN r3
              ELSE IF IsNullish(from) THEN Fail("EngineTypeError", r3.n, h)
              ELSE maxExclusive(r3.n, LengthOf(from, h, ns), DefaultComparator, h)
    IN  IF r4.out = "ValueOutOfRangeError" THEN Fail("IndexOutOfRangeError", r4.n, h)
        ELSE IF r4.out # "ok" THEN Fail(r4.out, r4.n, h)
        ELSE RetNew(r4.n, h, GetProperty(from, NumToStr(n.inner), h, ns),
                    GetSubPath(n.path, <<"[">> \o ToStr(n.inner, h) \o <<"]">>))

(***************************************************************************)
(* JSON.stringify and _GetObjectRepresentation.                            *)
(***************************************************************************)
\* A faulty variant of JsonEscape: nothing is escaped.
JsonEscapeNothing(s) == s

\* A JSON string literal: the quote, the backslash and the control characters
\* are escaped.
RECURSIVE JsonEscape(_)
JsonEscape(s) ==
    IF s = <<>> THEN <<>>
    ELSE (CASE s[1] \in {"\"", "\\"} -> <<"\\", s[1]>>
            [] s[1] = "\n" -> <<"\\", "n">>
            [] s[1] = "\t" -> <<"\\", "t">>
            [] s[1] = "\r" -> <<"\\", "r">>
            [] s[1] = "\f" -> <<"\\", "f">>
            [] OTHER -> <<s[1]>>) \o JsonEscape(Tail(s))

JsonQuote(s) == <<"\"">> \o JsonEscape(s) \o <<"\"">>

\* Values JSON.stringify gives no text for (undefined at top level, null in
\* an array, omitted from an object).
JsonOmitted(v) == v.t \in {"undefined", "function", "native"}

\* JSON.stringify(v) for a value it gives a text for: a Map, a Set and a
\* RegExp have no enumerable own properties; a Traverse object has its fields.
RECURSIVE JsonText(_, _, _)
RECURSIVE JsonElements(_, _, _)
RECURSIVE JsonMembers(_, _, _, _)
JsonElements(items, h, ns) ==
    IF items = <<>> THEN <<>>
    ELSE (IF JsonOmitted(items[1]) THEN <<"n", "u", "l", "l">> ELSE JsonText(items[1], h, ns))
         \o (IF Len(items) = 1 THEN <<>> ELSE <<",">> \o JsonElements(Tail(items), h, ns))

JsonMembers(keys, vals, h, ns) ==
    IF keys = <<>> THEN <<>>
    ELSE LET rest == JsonMembers(Tail(keys), Tail(vals), h, ns)
         IN  IF JsonOmitted(vals[1]) THEN rest
             ELSE JsonQuote(keys[1]) \o <<":">> \o JsonText(vals[1], h, ns)
                  \o (IF rest = <<>> THEN <<>> ELSE <<",">> \o rest)

JsonText(v, h, ns) ==
    CASE v.t = "null" -> <<"n", "u", "l", "l">>
      [] v.t = "boolean" -> ToStr(v, h)
      [] v.t = "number" -> IF v.d = 0 THEN <<"n", "u", "l", "l">> ELSE NumToStr(v)
      [] v.t = "string" -> JsonQuote(v.s)
      [] v.t = "object" /\ h[v.a].cls = "Array" ->
            <<"[">> \o JsonElements(h[v.a].items, h, ns) \o <<"]">>
      [] v.t = "object" ->
            <<"{">> \o JsonMembers(h[v.a].keys, h[v.a].vals, h, ns) \o <<"}">>
      [] v.t = "traverse" ->
            <<"{">>
            \o JsonMembers(<<K_pckNotNull, K_pckTypeOf, K_inner, K_path>>
                           \o (IF PropsAt(v, h) > 0 THEN h[PropsAt(v, h)].keys ELSE <<>>),
                           <<Bool(ns[v.i].pckNotNull), PckTypeOfMap(v.i),
                             ns[v.i].inner, Str(ns[v.i].path)>>
                           \o (IF PropsAt(v, h) > 0 THEN h[PropsAt(v, h)].vals ELSE <<>>),
                           h, ns)
            \o <<"}">>
      [] OTHER -> <<"{", "}">>

\* _GetObjectRepresentation(obj): JSON.stringify(obj), which is undefined
\* for undefined and for a function.
GetObjectRepresentation(v, h, ns) ==
    IF JsonOmitted(v) THEN Undefined ELSE Str(JsonText(v, h, ns))

(***************************************************************************)
(* JSON.parse: a parse step gives whether it succeeded, the value, the     *)
(* position after it and the heap with the objects it made.                *)
(***************************************************************************)
JsonFail(p, h) == [ok |-> FALSE, v |-> Null, p |-> p, h |-> h]
JsonOk(v, p, h) == [ok |-> TRUE, v |-> v, p |-> p, h |-> h]

\* A new array or plain object: its address is the next free one.
JsonNew(cls, keys, vals, items, p, h) ==
    JsonOk(Obj(Len(h) + 1), p,
           Append(h, [cls |-> cls, keys |-> keys, vals |-> vals, items |-> items,
                      mk |-> <<>>, mv |-> <<>>]))

JsonWs == {" ", "\t", "\n", "\r"}

RECURSIVE SkipWs(_, _)
SkipWs(s, p) == IF p <= Len(s) /\ s[p] \in JsonWs THEN SkipWs(s, p + 1) ELSE p

JsonAt(s, p, c) == p <= Len(s) /\ s[p] = c
JsonDigitAt(s, p) == p <= Len(s) /\ IsDigit(s[p])
JsonWordAt(s, p, w) == p + Len(w) - 1 <= Len(s) /\ SubSeq(s, p, p + Len(w) - 1) = w

\* The position after the digits that start at p.
RECURSIVE DigitsEnd(_, _)
DigitsEnd(s, p) == IF JsonDigitAt(s, p) THEN DigitsEnd(s, p + 1) ELSE p

\* -?(0|[1-9][0-9]*)(\.[0-9]+)?([eE][+-]?[0-9]+)?
JsonNumber(s, p, h) ==
    LET p1 == IF JsonAt(s, p, "-") THEN p + 1 ELSE p
        p2 == IF JsonAt(s, p1, "0") THEN p1 + 1 ELSE DigitsEnd(s, p1)
        hasFrac == JsonAt(s, p2, ".")
        p3 == IF hasFrac THEN DigitsEnd(s, p2 + 1) ELSE p2
        hasExp == JsonAt(s, p3, "e") \/ JsonAt(s, p3, "E")
        p4 == IF JsonAt(s, p3 + 1, "-") \/ JsonAt(s, p3 + 1, "+") THEN p3 + 2 ELSE p3 + 1
        p5 == IF hasExp THEN DigitsEnd(s, p4) ELSE p3
        m == ParseFloat(SubSeq(s, p, p3 - 1))
        e == DigitsValue(SubSeq(s, p4, p5 - 1))
    IN  IF ~JsonDigitAt(s, p1) \/ (hasFrac /\ ~JsonDigitAt(s, p2 + 1))
           \/ (hasExp /\ ~JsonDigitAt(s, p4))
        THEN JsonFail(p, h)
        ELSE IF ~hasExp THEN JsonOk(m, p5, h)
        ELSE IF JsonAt(s, p3 + 1, "-") THEN JsonOk(Rat(m.n, m.d * Pow10(e)), p5, h)
        ELSE JsonOk(Rat(m.n * Pow10(e), m.d), p5, h)

HexDigits == <<"0", "1", "2", "3", "4", "5", "6", "7", "8", "9", "a", "b", "c", "d", "e", "f">>
HexUpper == <<"0", "1", "2", "3", "4", "5", "6", "7", "8", "9", "A", "B", "C", "D", "E", "F">>
IsHex(c) == \E i \in 1..16 : HexDigits[i] = c \/ HexUpper[i] = c
HexValue(c) == (CHOOSE i \in 1..16 : HexDigits[i] = c \/ HexUpper[i] = c) - 1

\* The character of a \uXXXX escape; one outside the table of the model's
\* characters is written "u".
JsonUnicode(x) ==
    LET code == 4096 * HexValue(x[1]) + 256 * HexValue(x[2]) + 16 * HexValue(x[3])
                + HexValue(x[4])
    IN  CASE code \in 32..126 -> Ascii[code - 31]
          [] code = 9 -> "\t"
          [] code = 10 -> "\n"
          [] code = 12 -> "\f"
          [] code = 13 -> "\r"
          [] OTHER -> "u"

\* The characters of a string literal from p on, up to its closing quote.
RECURSIVE JsonStringBody(_, _, _, _)
JsonStringBody(s, p, acc, h) ==
    IF p > Len(s) \/ s[p] \in {"\t", "\n", "\r", "\f"} THEN JsonFail(p, h)
    ELSE IF s[p] = "\"" THEN JsonOk(Str(acc), p + 1, h)
    ELSE IF s[p] # "\\" THEN JsonStringBody(s, p + 1, Append(acc, s[p]), h)
    ELSE IF p + 1 > Len(s) THEN JsonFail(p, h)
    ELSE LET e == s[p + 1]
         IN  CASE e \in {"\"", "\\", "/"} -> JsonStringBody(s, p + 2, Append(acc, e), h)
               [] e = "n" -> JsonStringBody(s, p + 2, Append(acc, "\n"), h)
               [] e = "t" -> JsonStringBody(s, p + 2, Append(acc, "\t"), h)
               [] e = "r" -> JsonStringBody(s, p + 2, Append(acc, "\r"), h)
               [] e = "f" -> JsonStringBody(s, p + 2, Append(acc, "\f"), h)
               [] e = "b" -> JsonStringBody(s, p + 2, Append(acc, "backspace"), h)
               [] e = "u" /\ p + 5 <= Len(s) /\ \A i \in 2..5 : IsHex(s[p + i]) ->
                     JsonStringBody(s, p + 6,
                                    Append(acc, JsonUnicode(SubSeq(s, p + 2, p + 5))), h)
               [] OTHER -> JsonFail(p, h)

\* The member (k, v) added to an object under construction: a repeated key
\* keeps its place and takes the later value.
JsonPutKey(keys, k) == IF IndexOfKey(keys, k) > 0 THEN keys ELSE Append(keys, k)
JsonPutVal(keys, vals, k, v) ==
    IF IndexOfKey(keys, k) > 0 THEN [vals EXCEPT ![IndexOfKey(keys, k)] = v]
    ELSE Append(vals, v)

RECURSIVE JsonValue(_, _, _)
RECURSIVE JsonArrayItems(_, _, _, _)
RECURSIVE JsonObjectMembers(_, _, _, _, _)

\* The elements of an array from p on, up to its closing bracket.
JsonArrayItems(s, p, items, h) ==
    LET r == JsonValue(s, p, h)
        q == SkipWs(s, r.p)
    IN  IF ~r.ok THEN JsonFail(p, h)
        ELSE IF JsonAt(s, q, ",") THEN JsonArrayItems(s, q + 1, Append(items, r.v), r.h)
        ELSE IF JsonAt(s, q, "]")
        THEN JsonNew("Array", <<>>, <<>>, Append(items, r.v), q + 1, r.h)
        ELSE JsonFail(p, h)

\* The members of an object from p on, up to its closing brace.
JsonObjectMembers(s, p, keys, vals, h) ==
    LET p1 == SkipWs(s, p)
        k == IF JsonAt(s, p1, "\"") THEN JsonStringBody(s, p1 + 1, <<>>, h) ELSE JsonFail(p, h)
        p2 == SkipWs(s, k.p)
        r == IF k.ok /\ JsonAt(s, p2, ":") THEN JsonValue(s, p2 + 1, h) ELSE JsonFail(p, h)
        q == SkipWs(s, r.p)
    IN  IF ~r.ok THEN JsonFail(p, h)
        ELSE IF JsonAt(s, q, ",")
        THEN JsonObjectMembers(s, q + 1, JsonPutKey(keys, k.v.s),
                               JsonPutVal(keys, vals, k.v.s, r.v), r.h)
        ELSE IF JsonAt(s, q, "}")
        THEN JsonNew("Object", JsonPutKey(keys, k.v.s), JsonPutVal(keys, vals, k.v.s, r.v),
                     <<>>, q + 1, r.h)
        ELSE JsonFail(p, h)

\* A value, after any white space.
JsonValue(s, p, h) ==
    LET q == SkipWs(s, p)
    IN  CASE JsonWordAt(s, q, <<"n", "u", "l", "l">>) -> JsonOk(Null, q + 4, h)
          [] JsonWordAt(s, q, <<"t", "r", "u", "e">>) -> JsonOk(Bool(TRUE), q + 4, h)
          [] JsonWordAt(s, q, <<"f", "a", "l", "s", "e">>) -> JsonOk(Bool(FALSE), q + 5, h)
          [] JsonAt(s, q, "\"") -> JsonStringBody(s, q + 1, <<>>, h)
          [] JsonAt(s, q, "[") ->
                IF JsonAt(s, SkipWs(s, q + 1), "]")
                THEN JsonNew("Array", <<>>, <<>>, <<>>, SkipWs(s, q + 1) + 1, h)
                ELSE JsonArrayItems(s, q + 1, <<>>, h)
          [] JsonAt(s, q, "{") ->
                IF JsonAt(s, SkipWs(s, q + 1), "}")
                THEN JsonNew("Object", <<>>, <<>>, <<>>, SkipWs(s, q + 1) + 1, h)
                ELSE JsonObjectMembers(s, q + 1, <<>>, <<>>, h)
          [] OTHER -> JsonNumber(s, q, h)

\* JSON.parse(text): one value and nothing after it but white space; ok is
\* false where the engine throws its SyntaxError.
JsonParse(s, h) ==
    LET r == JsonValue(s, 1, h)
    IN  IF r.ok /\ SkipWs(s, r.p) = Len(s) + 1 THEN r ELSE JsonFail(1, h)

P_jsonLoad == <<"[", "J", "S", "O", "N", "(", "L", "o", "a", "d", ")", "]">>
P_jsonSave == <<"[", "J", "S", "O", "N", "(", "S", "a", "v", "e", ")", "]">>

\* jsonLoad()
jsonLoad(n, h) ==
    LET subPath == GetSubPath(n.path, P_jsonLoad)
    IN  IF ~IsNull(n)
        THEN LET r == StringN(n, h)
                 parsed == JsonParse(ToStr(n.inner, h), h)
             IN  IF r.out # "ok" THEN Fail(r.out, r.n, h)
                 ELSE IF ~parsed.ok THEN Fail("ParseError", r.n, h)
                 ELSE RetNew(r.n, parsed.h, parsed.v, subPath)
        ELSE RetNew(n, h, Null, subPath)

\* jsonSave(): JSON.stringify throws on a cyclic structure only, and the
\* heaps of the model hold none.
jsonSave(n, h, ns) ==
    RetNew(n, h, GetObjectRepresentation(n.inner, h, ns), GetSubPath(n.path, P_jsonSave))

(***************************************************************************)
(* Selecting from a caller's object or Map by the node's value.            *)
(***************************************************************************)
\* The right operand of "in" must be an object: anything else makes the
\* operator throw.
InThrows(from) == from.t \notin {"object", "traverse", "regexp", "function", "native"}

\* selectFromObject(from)
selectFromObject(n, from, h, ns) ==
    LET r == NotNullTypeOfN(n, Fn("String"), h)
    IN  IF r.out # "ok" THEN Fail(r.out, r.n, h)
        ELSE IF InThrows(from) THEN Fail("EngineTypeError", r.n, h)
        ELSE IF ~HasProperty(from, ToStr(n.inner, h), h) THEN Fail("KeyNotFoundError", r.n, h)
        ELSE RetNew(r.n, h, GetProperty(from, ToStr(n.inner, h), h, ns),
                    GetSubPath(n.path, ToStr(n.inner, h)))

\* selectFromObjectOptional(from, defaultValue)
selectFromObjectOptional(n, from, defaultValue, h, ns) ==
    LET r == NotNullTypeOfN(n, Fn("String"), h)
        s == IF r.out = "ok" THEN selectFromObject(r.n, from, h, ns) ELSE Fail(r.out, r.n, h)
    IN  IF s.out = "KeyNotFoundError"
        THEN RetNew(s.n, h, defaultValue, GetSubPath(n.path, ToStr(n.inner, h)))
        ELSE s

\* from.has(key): only a Map and a Set have the method; calling what is not
\* there throws.
HasMethodThrows(from, h) == ClassOf(from, h) \notin {"Map", "Set"}
HasMethod(from, key, h) ==
    IF ClassOf(from, h) = "Map" THEN MapHas(from, key, h) ELSE SetHas(from, key, h)

\* selectFromMap(from): the node's value is the key, whatever it is.
selectFromMap(n, from, h, ns) ==
    IF HasMethodThrows(from, h) THEN Fail("EngineTypeError", n, h)
    ELSE IF ~HasMethod(from, n.inner, h) THEN Fail("KeyNotFoundError", n, h)
    ELSE IF ClassOf(from, h) # "Map" THEN Fail("EngineTypeError", n, h)
    ELSE RetNew(n, h, MapGet(from, n.inner, h),
                GetSubPath(n.path, ToStr(GetObjectRepresentation(n.inner, h, ns), h)))

\* selectFromMapOptional(from, defaultValue)
selectFromMapOptional(n, from, defaultValue, h, ns) ==
    LET s == selectFromMap(n, from, h, ns)
    IN  IF s.out = "KeyNotFoundError"
        THEN RetNew(n, h, defaultValue,
                    GetSubPath(n.path, ToStr(GetObjectRepresentation(n.inner, h, ns), h)))
        ELSE s

(***************************************************************************)
(* Membership.                                                             *)
(***************************************************************************)
\* oneOf(selections)
oneOf(n, selections, h) ==
    IF n.inner # Null
    THEN LET cls == ClassOf(selections, h)
         IN  IF cls = "none" THEN Fail("ParameterError", n, h)
             ELSE IF (CASE cls = "Set" -> SetHas(selections, n.inner, h)
                        [] cls = "Map" -> MapHas(selections, n.inner, h)
                        [] cls = "Array" -> ArrayIncludesStrict(selections, n.inner, h)
                        [] OTHER -> HasProperty(selections, ToStr(n.inner, h), h))
             THEN RetSelf(n, h)
             ELSE Fail("KeyNotFoundError", n, h)
    ELSE RetSelf(n, h)

(***************************************************************************)
(* Plain objects.                                                          *)
(***************************************************************************)
IsCallable(v) == v.t \in {"function", "native"}

RECURSIVE ChildNodes(_, _, _, _, _)
ChildNodes(keys, v, path, h, ns) ==
    IF keys = <<>> THEN <<>>
    ELSE <<NewNode(GetProperty(v, keys[1], h, ns), GetSubPath(path, keys[1]))>>
         \o ChildNodes(Tail(keys), v, path, h, ns)

\* objectForEachEx(callback): the callback is handed one child node per
\* enumerable key, and is taken not to touch the object.
objectForEachEx(n, callback, h, ns) ==
    IF ~IsNull(n)
    THEN LET r == TypeOfN(n, Fn("Object"), h)
             keys == EnumerableKeys(n.inner, h)
         IN  IF r.out # "ok" THEN Fail(r.out, r.n, h)
             ELSE IF keys # <<>> /\ ~IsCallable(callback) THEN Fail("EngineTypeError", r.n, h)
             ELSE ResultK("ok", RSelf, r.n, h, <<>>, Len(keys), 0,
                          ChildNodes(keys, n.inner, n.path, h, ns))
    ELSE RetSelf(n, h)

\* objectForEach(callback): objectForEachEx with a function that calls callback.
objectForEach(n, callback, h, ns) == objectForEachEx(n, callback, h, ns)

\* objectSet(key, value)
objectSet(n, key, value, h) ==
    IF ~IsNull(n)
    THEN LET r == TypeOfN(n, Fn("Object"), h)
         IN  IF r.out # "ok" THEN Fail(r.out, r.n, h)
             ELSE RetSelf(r.n, SetProperty(n.inner, ToStr(key, h), value, h))
    ELSE RetSelf(n, h)

\* objectHas(key)
objectHas(n, key, h) ==
    LET r == NotNullTypeOfN(n, Fn("Object"), h)
    IN  IF r.out # "ok" THEN Fail(r.out, r.n, h)
        ELSE RetVal(r.n, h, Bool(HasProperty(n.inner, ToStr(key, h), h)))

(***************************************************************************)
(* Arrays.                                                                 *)
(***************************************************************************)
Items(n, h) == h[n.inner.a].items

\* A faulty variant of Splice1: the last element is removed.
SpliceLast(items, cursor) == SubSeq(items, 1, Len(items) - 1)

\* Array.prototype.splice(cursor, 1), cursor counted from 0.
Splice1(items, cursor) ==
    SubSeq(items, 1, cursor) \o SubSeq(items, cursor + 2, Len(items))

\* arrayLength()
arrayLength(n, h) ==
    LET r == NotNullTypeOfN(n, Fn("Array"), h)
    IN  IF r.out # "ok" THEN Fail(r.out, r.n, h)
        ELSE RetVal(r.n, h, Num(Len(Items(n, h))))

\* arrayGetItem(offset)
arrayGetItem(n, offset, h) ==
    LET r == NotNullTypeOfN(n, Fn("Array"), h)
    IN  IF r.out # "ok" THEN Fail(r.out, r.n, h)
        ELSE IF ~NumberIsInteger(offset) THEN Fail("ParameterError", r.n, h)
        ELSE IF offset.n < 0 \/ offset.n >= Len(Items(n, h))
        THEN Fail("IndexOutOfRangeError", r.n, h)
        ELSE RetNew(r.n, h, Items(n, h)[offset.n + 1], GetSubPath(n.path, IndexSegment(offset.n)))

\* A faulty variant of arraySetItem: the value is stored before the upper
\* bound is checked.
arraySetItemStoresFirst(n, offset, value, h) ==
    IF ~NumberIsInteger(offset) THEN Fail("ParameterError", n, h)
    ELSE IF offset.n < 0 THEN Fail("IndexOutOfRangeError", n, h)
    ELSE IF ~IsNull(n)
    THEN LET r == TypeOfN(n, Fn("Array"), h)
         IN  IF r.out # "ok" THEN Fail(r.out, r.n, h)
             ELSE IF offset.n >= Len(Items(n, h))
             THEN Fail("IndexOutOfRangeError", r.n,
                       [h EXCEPT ![n.inner.a].items = Append(@, value)])
             ELSE RetSelf(r.n, [h EXCEPT ![n.inner.a].items[offset.n + 1] = value])
    ELSE RetSelf(n, h)

\* A faulty variant of arraySetItem: the offset equal to the length is
\* accepted and appends.
arraySetItemAllowsAppend(n, offset, value, h) ==
    IF ~NumberIsInteger(offset) THEN Fail("ParameterError", n, h)
    ELSE IF offset.n < 0 THEN Fail("IndexOutOfRangeError", n, h)
    ELSE IF ~IsNull(n)
    THEN LET r == TypeOfN(n, Fn("Array"), h)
         IN  IF r.out # "ok" THEN Fail(r.out, r.n, h)
             ELSE IF offset.n > Len(Items(n, h)) THEN Fail("IndexOutOfRangeError", r.n, h)
             ELSE IF offset.n = Len(Items(n, h))
             THEN RetSelf(r.n, [h EXCEPT ![n.inner.a].items = Append(@, value)])
             ELSE RetSelf(r.n, [h EXCEPT ![n.inner.a].items[offset.n + 1] = value])
    ELSE RetSelf(n, h)

\* arraySetItem(offset, value)
arraySetItem(n, offset, value, h) ==
    IF ~NumberIsInteger(offset) THEN Fail("ParameterError", n, h)
    ELSE IF offset.n < 0 THEN Fail("IndexOutOfRangeError", n, h)
    ELSE IF ~IsNull(n)
    THEN LET r == TypeOfN(n, Fn("Array"), h)
         IN  IF r.out # "ok" THEN Fail(r.out, r.n, h)
             ELSE IF offset.n >= Len(Items(n, h)) THEN Fail("IndexOutOfRangeError", r.n, h)
             ELSE RetSelf(r.n, [h EXCEPT ![n.inner.a].items[offset.n + 1] = value])
    ELSE RetSelf(n, h)

\* arrayPushItem(value)
arrayPushItem(n, value, h) ==
    IF ~IsNull(n)
    THEN LET r == TypeOfN(n, Fn("Array"), h)
         IN  IF r.out # "ok" THEN Fail(r.out, r.n, h)
             ELSE RetSelf(r.n, [h EXCEPT ![n.inner.a].items = Append(@, value)])
    ELSE RetSelf(n, h)

\* A faulty variant of arrayPopItem: the path segment is the length before
\* the removal.
arrayPopItemOldLength(n, h) ==
    LET r == NotNullTypeOfN(n, Fn("Array"), h)
    IN  IF r.out # "ok" THEN Fail(r.out, r.n, h)
        ELSE IF Len(Items(n, h)) = 0 THEN Fail("IndexOutOfRangeError", r.n, h)
        ELSE RetNew(r.n, [h EXCEPT ![n.inner.a].items = SubSeq(@, 1, Len(@) - 1)],
                    Items(n, h)[Len(Items(n, h))],
                    GetSubPath(n.path, IndexSegment(Len(Items(n, h)))))

\* arrayPopItem()
arrayPopItem(n, h) ==
    LET r == NotNullTypeOfN(n, Fn("Array"), h)
    IN  IF r.out # "ok" THEN Fail(r.out, r.n, h)
        ELSE IF Len(Items(n, h)) = 0 THEN Fail("IndexOutOfRangeError", r.n, h)
        ELSE LET popped == SubSeq(Items(n, h), 1, Len(Items(n, h)) - 1)
             IN  RetNew(r.n, [h EXCEPT ![n.inner.a].items = popped],
                        Items(n, h)[Len(Items(n, h))],
                        GetSubPath(n.path, IndexSegment(Len(popped))))

\* arrayShiftItem()
arrayShiftItem(n, h) ==
    LET r == NotNullTypeOfN(n, Fn("Array"), h)
    IN  IF r.out # "ok" THEN Fail(r.out, r.n, h)
        ELSE IF Len(Items(n, h)) = 0 THEN Fail("IndexOutOfRangeError", r.n, h)
        ELSE RetNew(r.n, [h EXCEPT ![n.inner.a].items = Tail(@)],
                    Items(n, h)[1], GetSubPath(n.path, IndexSegment(0)))

\* A faulty variant of arrayUnshiftItem: the value is put at the end.
arrayUnshiftItemAppends(n, value, h) ==
    IF ~IsNull(n)
    THEN LET r == TypeOfN(n, Fn("Array"), h)
         IN  IF r.out # "ok" THEN Fail(r.out, r.n, h)
             ELSE RetSelf(r.n, [h EXCEPT ![n.inner.a].items = Append(@, value)])
    ELSE RetSelf(n, h)

\* arrayUnshiftItem(value)
arrayUnshiftItem(n, value, h) ==
    IF ~IsNull(n)
    THEN LET r == TypeOfN(n, Fn("Array"), h)
         IN  IF r.out # "ok" THEN Fail(r.out, r.n, h)
             ELSE RetSelf(r.n, [h EXCEPT ![n.inner.a].items = <<value>> \o @])
    ELSE RetSelf(n, h)

\* (currentLength < bound) and (currentLength > bound) for a bound that is a
\* number, null (0) or undefined (NaN).
LengthBelow(len, bound) ==
    CASE bound.t = "number" -> bound.d # 0 /\ len * bound.d < bound.n
      [] bound.t = "null" -> len < 0
      [] OTHER -> FALSE

LengthAbove(len, bound) ==
    CASE bound.t = "number" -> bound.d # 0 /\ len * bound.d > bound.n
      [] bound.t = "null" -> len > 0
      [] OTHER -> FALSE

\* arrayMinLength(minLength)
arrayMinLength(n, minLength, h) ==
    IF ~IsNull(n)
    THEN LET r == TypeOfN(n, Fn("Array"), h)
         IN  IF r.out # "ok" THEN Fail(r.out, r.n, h)
             ELSE IF LengthBelow(Len(Items(n, h)), minLength) THEN Fail("SizeError", r.n, h)
             ELSE RetSelf(r.n, h)
    ELSE RetSelf(n, h)

\* arrayMaxLength(maxLength)
arrayMaxLength(n, maxLength, h) ==
    IF ~IsNull(n)
    THEN LET r == TypeOfN(n, Fn("Array"), h)
         IN  IF r.out # "ok" THEN Fail(r.out, r.n, h)
             ELSE IF LengthAbove(Len(Items(n, h)), maxLength) THEN Fail("SizeError", r.n, h)
             ELSE RetSelf(r.n, h)
    ELSE RetSelf(n, h)

(***************************************************************************)
(* arrayForEach: the loop runs one iteration per step, because the         *)
(* callback is the caller's code.  The callback may invoke cbs.delete()    *)
(* and cbs.stop(); it is taken not to touch the array otherwise.           *)
(***************************************************************************)
\* A faulty variant of StartCursor: the reverse loop starts one element early.
StartCursorSkipsLast(reverse, len) == IF reverse THEN len - 2 ELSE 0

\* let cursor = inner_arr.length - 1 (reverse), let cursor = 0 (forward)
StartCursor(reverse, len) == IF reverse THEN len - 1 ELSE 0

\* cursor >= 0 (reverse), cursor < inner_arr.length (forward)
LoopCondition(reverse, cursor, len) == IF reverse THEN cursor >= 0 ELSE cursor < len

\* A faulty variant of Break: a requested stop is ignored.
NoBreak(swStop) == FALSE

\* if (swStop) break: the loop is left without the for-loop's --cursor.
Break(swStop) == swStop

\* A faulty variant of NextCursor: the forward loop advances after a delete.
NextCursorAlwaysAdvances(reverse, cursor, swDelete, swStop) ==
    IF reverse
    THEN IF swStop THEN cursor ELSE cursor - 1
    ELSE cursor + 1

\* The cursor after an iteration: --cursor of the for loop (reverse) unless
\* the loop breaks, or the else branch ++cursor (forward).
NextCursor(reverse, cursor, swDelete, swStop) ==
    IF reverse
    THEN IF Break(swStop) THEN cursor ELSE cursor - 1
    ELSE IF swDelete THEN cursor ELSE cursor + 1

\* The callbacks of the model: any function (it may invoke delete and stop
\* as it likes), and the function that deletes even numbers and stops at a
\* number not above zero.
CbFree == Fn("callback")
CbFixture == Fn("deleteEvenStopNonPositive")

CallbackMay(cb, item, del, stop) ==
    IF cb = CbFixture
    THEN /\ del = (item.t = "number" /\ item.d = 1 /\ item.n % 2 = 0)
         /\ stop = (item.t = "number" /\ item.d # 0 /\ item.n <= 0)
    ELSE TRUE

\* The callbacks of arrayForEachWithDeletion: any function returning a
\* boolean, and the one of the documented example, which returns true for
\* every item but "love".
CbUnlessLove == Fn("deleteUnlessLove")
S_love == Str(<<"l", "o", "v", "e">>)

LegacyCallbackMay(cb, item, isDelete) ==
    IF cb = CbUnlessLove THEN isDelete = (item # S_love) ELSE TRUE

\* A faulty variant of LegacyNextCursor: the cursor advances after a delete.
LegacyNextCursorAlwaysAdvances(cursor, isDelete) == cursor + 1

\* if (isDelete) splice else ++cursor
LegacyNextCursor(cursor, isDelete) == IF isDelete THEN cursor ELSE cursor + 1

NoIter == [phase |-> "idle"]

(***************************************************************************)
(* The objects of the heap and the values handed to the operations.        *)
(***************************************************************************)
HeapObject(cls, keys, vals, items, mk, mv) ==
    [cls |-> cls, keys |-> keys, vals |-> vals, items |-> items, mk |-> mk, mv |-> mv]

\* The addresses of the heap's objects.
Addr == [obj |-> 1, arr |-> 2, map |-> 3, empty |-> 4, set |-> 5, noitems |-> 6]

InitHeap(arr) ==
    << HeapObject("Object", << <<"a">>, <<>>, <<"b">> >>, <<Num(1), Null, Obj(Addr.arr)>>,
                  <<>>, <<>>, <<>>),
       HeapObject("Array", <<>>, <<>>, arr, <<>>, <<>>),
       HeapObject("Map", <<>>, <<>>, <<>>, <<Str(<<"a">>), Num(1), Null>>,
                  <<Num(1), Str(<<"a">>), Bool(TRUE)>>),
       HeapObject("Object", <<>>, <<>>, <<>>, <<>>, <<>>),
       HeapObject("Set", <<>>, <<>>, <<Num(1), Str(<<"a">>)>>, <<>>, <<>>),
       HeapObject("Array", <<>>, <<>>, <<>>, <<>>, <<>>) >>

MainArray == <<Num(1), Null>>
Fixture == <<Num(-2), Num(-1), Num(0), Num(1), Num(2), Num(3), Num(4), Num(5)>>

S_a == Str(<<"a">>)
S_b == Str(<<"b">>)
S_empty == Str(<<>>)
S_12 == Str(<<"1", "2">>)
S_z == Str(<<"z">>)
S_toString == Str(<<"t", "o", "S", "t", "r", "i", "n", "g">>)

Roots ==
    {Null, Undefined, Num(0), Num(1), Num(2), Half, NaN, S_a, S_empty, S_12, S_toString,
     Bool(TRUE)}
    \cup {Obj(Addr[k]) : k \in DOMAIN Addr}

Ctors == {Fn("Number"), Fn("String"), Fn("Object"), Fn("Array"), Null}
CharTables == {S_a, S_12, Null, Num(1)}
RegExps == {RegExp("INTEGER"), Null, S_a}
Names == {S_a, S_empty, S_toString, S_z, Num(1), Null, Undefined}
Thresholds == {Num(0), Num(1), S_b, Null, Undefined, Obj(Addr.obj), Obj(Addr.empty)}
Comparators == {DefaultComparator, CustomComparator(TRUE)}
RangeBounds == {Num(0), Num(1), S_b}
RangeComparators == Comparators \cup {CustomComparator(FALSE)}
Froms == {Obj(Addr.arr), Obj(Addr.noitems), Obj(Addr.obj), Null, S_a}
ObjectFroms == {Obj(Addr.obj), Obj(Addr.empty), Obj(Addr.map), Null, Num(1), S_a}
MapFroms == {Obj(Addr.map), Obj(Addr.set), Obj(Addr.obj), Null, Num(1), S_a}
Selections ==
    {Obj(Addr.set), Obj(Addr.map), Obj(Addr.arr), Obj(Addr.obj), Obj(Addr.empty), Null,
     Num(1), S_a, Bool(TRUE)}
SetKeys == {S_a, Str(<<"c">>)}
NewValues == {Num(7), Null}
SetPairs == (SetKeys \X NewValues) \cup {<<Str(K_constructor), Fn("String")>>}
HasKeys == {S_a, S_z, S_toString}
(***************************************************************************)
(* Custom rules.                                                           *)
(***************************************************************************)
\* The rule callbacks of the model, each a function of its argument:
\*   function (inner) { return inner === null; }
\*   function (inner) { return null; }
\*   function (inner) { }
\*   function (inner) { return 1; }
\*   function (inner) { return new Boolean(false); }
RuleIsNull == Fn("isNull")
RuleNull == Fn("returnsNull")
RuleNothing == Fn("returnsNothing")
RuleOne == Fn("returnsOne")
RuleBoxedFalse == Fn("returnsNewBooleanFalse")

\* The heap once the callback has run (new Boolean(false) allocates).
RuleHeap(callback, h) ==
    IF callback = RuleBoxedFalse
    THEN Append(h, HeapObject("Boolean", <<>>, <<>>, <<>>, <<>>, <<>>))
    ELSE h

\* What the callback returns for an argument.
RuleAnswer(callback, arg, h) ==
    CASE callback = RuleIsNull -> Bool(arg = Null)
      [] callback = RuleNull -> Null
      [] callback = RuleOne -> Num(1)
      [] callback = RuleBoxedFalse -> Obj(Len(h) + 1)
      [] OTHER -> Undefined

\* customRule(callback): the callback is called with the raw inner value.
customRule(n, callback, h) ==
    IF ~IsCallable(callback) THEN Fail("ParameterError", n, h)
    ELSE LET h2 == RuleHeap(callback, h)
             isConformed == RuleAnswer(callback, n.inner, h)
         IN  IF \/ IsNullish(isConformed)
                \/ ~IsInstanceOf(isConformed, Fn("Boolean"), h2)
             THEN Result("ParameterError", RNone, n, h2, <<>>, 1, 0)
             ELSE IF isConformed = Bool(FALSE)
             THEN Result("Error", RNone, n, h2, <<>>, 1, 0)
             ELSE Result("ok", RSelf, n, h2, <<>>, 1, 0)

RuleCallbacks == {RuleIsNull, RuleNull, RuleNothing, RuleOne, RuleBoxedFalse, Null, S_a}

Callbacks == {CbFree, Null}
Offsets == {Num(-1), Num(0), Num(1), Num(2), Half, Null}
Lengths == {Num(0), Num(2), Num(3)}
IterCallbacks == {CbFree, CbFixture, Null}
LegacyCallbacks == {CbFree, CbUnlessLove, Null}

(***************************************************************************)
(* The state machine.  heap: the objects; nodes: the Traverse objects      *)
(* constructed so far; last: the latest call, with its outcome and the     *)
(* heap and receiver it found; it: the arrayForEach loop in progress or    *)
(* just left; ncalls: the number of calls made.                            *)
(***************************************************************************)
Returned(r, self, ns) ==
    IF r.ret = RSelf THEN NodeRef(self)
    ELSE IF r.ret = RNew THEN NodeRef(Len(ns) + 1)
    ELSE r.ret

\* A call of a method on nodes[self] that runs to its end in one step.
Do(limit, op, self, args, r) ==
    /\ ncalls < limit
    /\ it.phase # "loop"
    /\ nodes' = [nodes EXCEPT ![self] = r.n] \o r.new
    /\ heap' = r.h
    /\ last' = [op |-> op, self |-> self, args |-> args, out |-> r.out,
                ret |-> Returned(r, self, nodes), cb |-> r.cb, cmp |-> r.cmp,
                kids |-> r.kids, before |-> [heap |-> heap, node |-> nodes[self]]]
    /\ it' = NoIter
    /\ ncalls' = ncalls + 1

\* A faulty variant of WrapObjectReturnsInner: a wrapper is always made.
WrapObjectAlwaysWraps(inner, force, h) == FALSE

\* inner instanceof Traverse && !force
WrapObjectReturnsInner(inner, force, h) == InstanceOf(inner, Fn("Traverse"), h) /\ ~force

\* Traverse.WrapObject(inner, force)
WrapObject(limit, forces) ==
    \E inner \in Roots \cup {NodeRef(i) : i \in DOMAIN nodes}, force \in forces :
        /\ ncalls < limit
        /\ it.phase # "loop"
        /\ LET same == WrapObjectReturnsInner(inner, force, heap)
           IN  /\ nodes' = IF same THEN nodes ELSE Append(nodes, NewNode(inner, RootPath))
               /\ last' = [op |-> "WrapObject", self |-> 0, args |-> <<inner, Bool(force)>>,
                           out |-> "ok",
                           ret |-> IF same THEN inner ELSE NodeRef(Len(nodes) + 1),
                           cb |-> 0, cmp |-> 0, kids |-> <<>>,
                           before |-> [heap |-> heap, node |-> NewNode(Undefined, <<>>)]]
        /\ it' = NoIter
        /\ ncalls' = ncalls + 1
        /\ UNCHANGED heap

TypeOf(limit) ==
    \E self \in DOMAIN nodes, ctor \in Ctors :
        Do(limit, "typeOf", self, <<ctor>>, typeOf(nodes[self], ctor, heap))

Numeric(limit) ==
    \E self \in DOMAIN nodes : Do(limit, "numeric", self, <<>>, numeric(nodes[self], heap))

Integer(limit) ==
    \E self \in DOMAIN nodes : Do(limit, "integer", self, <<>>, integer(nodes[self], heap))

Boolean(limit) ==
    \E self \in DOMAIN nodes : Do(limit, "boolean", self, <<>>, boolean(nodes[self], heap))

String(limit) ==
    \E self \in DOMAIN nodes : Do(limit, "string", self, <<>>, string(nodes[self], heap))

NotNull(limit) ==
    \E self \in DOMAIN nodes : Do(limit, "notNull", self, <<>>, notNull(nodes[self], heap))

IsNullCall(limit) ==
    \E self \in DOMAIN nodes : Do(limit, "isNull", self, <<>>, isNull(nodes[self], heap))

Unwrap(limit) ==
    \E self \in DOMAIN nodes : Do(limit, "unwrap", self, <<>>, unwrap(nodes[self], heap))

StringValidate(limit) ==
    \E self \in DOMAIN nodes, charTable \in CharTables :
        Do(limit, "stringValidate", self, <<charTable>>,
           stringValidate(nodes[self], charTable, heap))

StringValidateByRegExp(limit) ==
    \E self \in DOMAIN nodes, re \in RegExps :
        Do(limit, "stringValidateByRegExp", self, <<re>>,
           stringValidateByRegExp(nodes[self], re, heap))

StringToInteger(limit) ==
    \E self \in DOMAIN nodes :
        Do(limit, "stringToInteger", self, <<>>, stringToInteger(nodes[self], heap))

JsonLoad(limit) ==
    \E self \in DOMAIN nodes :
        Do(limit, "jsonLoad", self, <<>>, jsonLoad(nodes[self], heap))

JsonSave(limit) ==
    \E self \in DOMAIN nodes :
        Do(limit, "jsonSave", self, <<>>, jsonSave(nodes[self], heap, nodes))

StringToFloat(limit) ==
    \E self \in DOMAIN nodes :
        Do(limit, "stringToFloat", self, <<>>, stringToFloat(nodes[self], heap))

Sub(limit) ==
    \E self \in DOMAIN nodes, name \in Names :
        Do(limit, "sub", self, <<name>>, sub(nodes[self], name, heap, nodes))

OptionalSub(limit) ==
    \E self \in DOMAIN nodes, name \in Names, defaultValue \in {Num(7)} :
        Do(limit, "optionalSub", self, <<name, defaultValue>>,
           optionalSub(nodes[self], name, defaultValue, heap, nodes))

Min(limit) ==
    \E self \in DOMAIN nodes, threshold \in Thresholds, cmp \in Comparators :
        Do(limit, "min", self, <<threshold, cmp>>, min(nodes[self], threshold, cmp, heap))

MinExclusive(limit) ==
    \E self \in DOMAIN nodes, threshold \in Thresholds, cmp \in Comparators :
        Do(limit, "minExclusive", self, <<threshold, cmp>>,
           minExclusive(nodes[self], threshold, cmp, heap))

Max(limit) ==
    \E self \in DOMAIN nodes, threshold \in Thresholds, cmp \in Comparators :
        Do(limit, "max", self, <<threshold, cmp>>, max(nodes[self], threshold, cmp, heap))

MaxExclusive(limit) ==
    \E self \in DOMAIN nodes, threshold \in Thresholds, cmp \in Comparators :
        Do(limit, "maxExclusive", self, <<threshold, cmp>>,
           maxExclusive(nodes[self], threshold, cmp, heap))

Range(limit) ==
    \E self \in DOMAIN nodes, minValue \in RangeBounds, maxValue \in RangeBounds,
       cmp \in RangeComparators :
        Do(limit, "range", self, <<minValue, maxValue, cmp>>,
           range(nodes[self], minValue, maxValue, cmp, heap))

SelectFromArray(limit) ==
    \E self \in DOMAIN nodes, from \in Froms :
        Do(limit, "selectFromArray", self, <<from>>,
           selectFromArray(nodes[self], from, heap, nodes))

SelectFromObject(limit) ==
    \E self \in DOMAIN nodes, from \in ObjectFroms :
        Do(limit, "selectFromObject", self, <<from>>,
           selectFromObject(nodes[self], from, heap, nodes))

SelectFromObjectOptional(limit) ==
    \E self \in DOMAIN nodes, from \in ObjectFroms, defaultValue \in {Num(7)} :
        Do(limit, "selectFromObjectOptional", self, <<from, defaultValue>>,
           selectFromObjectOptional(nodes[self], from, defaultValue, heap, nodes))

SelectFromMap(limit) ==
    \E self \in DOMAIN nodes, from \in MapFroms :
        Do(limit, "selectFromMap", self, <<from>>,
           selectFromMap(nodes[self], from, heap, nodes))

SelectFromMapOptional(limit) ==
    \E self \in DOMAIN nodes, from \in MapFroms, defaultValue \in {Num(7)} :
        Do(limit, "selectFromMapOptional", self, <<from, defaultValue>>,
           selectFromMapOptional(nodes[self], from, defaultValue, heap, nodes))

OneOf(limit) ==
    \E self \in DOMAIN nodes, selections \in Selections :
        Do(limit, "oneOf", self, <<selections>>, oneOf(nodes[self], selections, heap))

CustomRule(limit) ==
    \E self \in DOMAIN nodes, callback \in RuleCallbacks :
        Do(limit, "customRule", self, <<callback>>, customRule(nodes[self], callback, heap))

ObjectForEach(limit) ==
    \E self \in DOMAIN nodes, callback \in Callbacks :
        Do(limit, "objectForEach", self, <<callback>>,
           objectForEach(nodes[self], callback, heap, nodes))

ObjectForEachEx(limit) ==
    \E self \in DOMAIN nodes, callback \in Callbacks :
        Do(limit, "objectForEachEx", self, <<callback>>,
           objectForEachEx(nodes[self], callback, heap, nodes))

ObjectSet(limit) ==
    \E self \in DOMAIN nodes, kv \in SetPairs :
        Do(limit, "objectSet", self, kv, objectSet(nodes[self], kv[1], kv[2], heap))

ObjectHas(limit) ==
    \E self \in DOMAIN nodes, key \in HasKeys :
        Do(limit, "objectHas", self, <<key>>, objectHas(nodes[self], key, heap))

ArrayLength(limit) ==
    \E self \in DOMAIN nodes :
        Do(limit, "arrayLength", self, <<>>, arrayLength(nodes[self], heap))

ArrayGetItem(limit) ==
    \E self \in DOMAIN nodes, offset \in Offsets :
        Do(limit, "arrayGetItem", self, <<offset>>, arrayGetItem(nodes[self], offset, heap))

ArraySetItem(limit) ==
    \E self \in DOMAIN nodes, offset \in Offsets, value \in {Num(7)} :
        Do(limit, "arraySetItem", self, <<offset, value>>,
           arraySetItem(nodes[self], offset, value, heap))

ArrayPushItem(limit) ==
    \E self \in DOMAIN nodes, value \in NewValues :
        Do(limit, "arrayPushItem", self, <<value>>, arrayPushItem(nodes[self], value, heap))

ArrayPopItem(limit) ==
    \E self \in DOMAIN nodes :
        Do(limit, "arrayPopItem", self, <<>>, arrayPopItem(nodes[self], heap))

ArrayShiftItem(limit) ==
    \E self \in DOMAIN nodes :
        Do(limit, "arrayShiftItem", self, <<>>, arrayShiftItem(nodes[self], heap))

ArrayUnshiftItem(limit) ==
    \E self \in DOMAIN nodes, value \in NewValues :
        Do(limit, "arrayUnshiftItem", self, <<value>>,
           arrayUnshiftItem(nodes[self], value, heap))

ArrayMinLength(limit) ==
    \E self \in DOMAIN nodes, minLength \in Lengths :
        Do(limit, "arrayMinLength", self, <<minLength>>,
           arrayMinLength(nodes[self], minLength, heap))

ArrayMaxLength(limit) ==
    \E self \in DOMAIN nodes, maxLength \in Lengths :
        Do(limit, "arrayMaxLength", self, <<maxLength>>,
           arrayMaxLength(nodes[self], maxLength, heap))

\* arrayForEach(callback, reverse): the call up to the first iteration.  An
\* arbitrary callback is only handed arrays of at most MaxArrLen elements.
ArrayForEach(limit) ==
    \E self \in DOMAIN nodes, callback \in IterCallbacks, reverse \in BOOLEAN :
        LET n == nodes[self]
            r == TypeOfN(n, Fn("Array"), heap)
            args == <<callback, Bool(reverse)>>
        IN  IF IsNull(n) THEN Do(limit, "arrayForEach", self, args, RetSelf(n, heap))
            ELSE IF r.out # "ok"
            THEN Do(limit, "arrayForEach", self, args, Fail(r.out, r.n, heap))
            ELSE /\ ncalls < limit
                 /\ it.phase # "loop"
                 /\ callback = CbFree => Len(Items(n, heap)) <= MaxArrLen
                 /\ nodes' = [nodes EXCEPT ![self] = r.n]
                 /\ last' = [op |-> "arrayForEach", self |-> self, args |-> args,
                             out |-> "running", ret |-> RNone, cb |-> 0, cmp |-> 0,
                             kids |-> <<>>, before |-> [heap |-> heap, node |-> n]]
                 /\ it' = [phase |-> "loop", self |-> self, cb |-> callback,
                           reverse |-> reverse, legacy |-> FALSE,
                           cursor |-> StartCursor(reverse, Len(Items(n, heap))),
                           swStop |-> FALSE, broke |-> FALSE,
                           orig |-> Items(n, heap),
                           idx |-> [i \in 1..Len(Items(n, heap)) |-> i - 1],
                           visited |-> <<>>, deleted |-> {}, afterStop |-> 0,
                           lastDeleted |-> FALSE]
                 /\ ncalls' = ncalls + 1
                 /\ UNCHANGED heap

\* One iteration of the loop: the callback is invoked on the element under
\* the cursor; a requested delete is spliced, then a requested stop breaks.
\* Alongside, the step records which original element was visited or deleted.
ArrayForEachStep ==
    /\ it.phase = "loop"
    /\ ~it.legacy
    /\ ~it.broke
    /\ LoopCondition(it.reverse, it.cursor, Len(Items(nodes[it.self], heap)))
    /\ LET n == nodes[it.self]
           items == Items(n, heap)
           item == items[it.cursor + 1]
       IN  IF ~IsCallable(it.cb)
           THEN /\ last' = [last EXCEPT !.out = "EngineTypeError"]
                /\ it' = [it EXCEPT !.phase = "done"]
                /\ UNCHANGED heap
           ELSE \E del \in BOOLEAN, stop \in BOOLEAN :
                   /\ CallbackMay(it.cb, item, del, stop)
                   /\ heap' = IF del
                              THEN [heap EXCEPT ![n.inner.a].items = Splice1(items, it.cursor)]
                              ELSE heap
                   /\ last' = [last EXCEPT
                                 !.cb = @ + 1,
                                 !.kids = <<NewNode(item, GetSubPath(n.path,
                                                            IndexSegment(it.cursor)))>>]
                   /\ it' = [it EXCEPT
                               !.cursor = NextCursor(it.reverse, it.cursor, del,
                                                     it.swStop \/ stop),
                               !.swStop = it.swStop \/ stop,
                               !.broke = Break(it.swStop \/ stop),
                               !.idx = IF del THEN Splice1(it.idx, it.cursor) ELSE @,
                               !.visited = Append(@, it.idx[it.cursor + 1]),
                               !.deleted = IF del THEN @ \cup {it.idx[it.cursor + 1]} ELSE @,
                               !.afterStop = IF it.swStop THEN @ + 1 ELSE @,
                               !.lastDeleted = del]
    /\ UNCHANGED <<nodes, ncalls>>

\* The loop is left (its condition fails, or it broke): return this.
ArrayForEachReturn ==
    /\ it.phase = "loop"
    /\ ~it.legacy
    /\ \/ it.broke
       \/ ~LoopCondition(it.reverse, it.cursor, Len(Items(nodes[it.self], heap)))
    /\ last' = [last EXCEPT !.out = "ok", !.ret = NodeRef(it.self)]
    /\ it' = [it EXCEPT !.phase = "done"]
    /\ UNCHANGED <<heap, nodes, ncalls>>

\* arrayForEachWithDeletion(callback), up to the loop.
ArrayForEachWithDeletion(limit) ==
    \E self \in DOMAIN nodes, callback \in LegacyCallbacks :
        LET n == nodes[self]
            r == TypeOfN(n, Fn("Array"), heap)
            args == <<callback>>
        IN  IF IsNull(n)
            THEN Do(limit, "arrayForEachWithDeletion", self, args, RetSelf(n, heap))
            ELSE IF r.out # "ok"
            THEN Do(limit, "arrayForEachWithDeletion", self, args, Fail(r.out, r.n, heap))
            ELSE /\ ncalls < limit
                 /\ it.phase # "loop"
                 /\ Len(Items(n, heap)) <= MaxArrLen
                 /\ nodes' = [nodes EXCEPT ![self] = r.n]
                 /\ last' = [op |-> "arrayForEachWithDeletion", self |-> self,
                             args |-> args, out |-> "running", ret |-> RNone, cb |-> 0,
                             cmp |-> 0, kids |-> <<>>,
                             before |-> [heap |-> heap, node |-> n]]
                 /\ it' = [phase |-> "loop", self |-> self, cb |-> callback,
                           reverse |-> FALSE, legacy |-> TRUE, cursor |-> 0,
                           swStop |-> FALSE, broke |-> FALSE,
                           orig |-> Items(n, heap),
                           idx |-> [i \in 1..Len(Items(n, heap)) |-> i - 1],
                           visited |-> <<>>, deleted |-> {}, afterStop |-> 0,
                           lastDeleted |-> FALSE]
                 /\ ncalls' = ncalls + 1
                 /\ UNCHANGED heap

\* One iteration of its loop: the callback is invoked on the element under
\* the cursor; a true result splices the element out, any other advances.
ArrayForEachWithDeletionStep ==
    /\ it.phase = "loop"
    /\ it.legacy
    /\ it.cursor < Len(Items(nodes[it.self], heap))
    /\ LET n == nodes[it.self]
           items == Items(n, heap)
           item == items[it.cursor + 1]
       IN  IF ~IsCallable(it.cb)
           THEN /\ last' = [last EXCEPT !.out = "EngineTypeError"]
                /\ it' = [it EXCEPT !.phase = "done"]
                /\ UNCHANGED heap
           ELSE \E isDelete \in BOOLEAN :
                   /\ LegacyCallbackMay(it.cb, item, isDelete)
                   /\ heap' = IF isDelete
                              THEN [heap EXCEPT ![n.inner.a].items = Splice1(items, it.cursor)]
                              ELSE heap
                   /\ last' = [last EXCEPT
                                 !.cb = @ + 1,
                                 !.kids = <<NewNode(item, GetSubPath(n.path,
                                                            IndexSegment(it.cursor)))>>]
                   /\ it' = [it EXCEPT
                               !.cursor = LegacyNextCursor(it.cursor, isDelete),
                               !.idx = IF isDelete THEN Splice1(it.idx, it.cursor) ELSE @,
                               !.visited = Append(@, it.idx[it.cursor + 1]),
                               !.deleted = IF isDelete THEN @ \cup {it.idx[it.cursor + 1]}
                                           ELSE @,
                               !.lastDeleted = isDelete]
    /\ UNCHANGED <<nodes, ncalls>>

\* The loop condition fails: return this.
ArrayForEachWithDeletionReturn ==
    /\ it.phase = "loop"
    /\ it.legacy
    /\ ~(it.cursor < Len(Items(nodes[it.self], heap)))
    /\ last' = [last EXCEPT !.out = "ok", !.ret = NodeRef(it.self)]
    /\ it' = [it EXCEPT !.phase = "done"]
    /\ UNCHANGED <<heap, nodes, ncalls>>

(***************************************************************************)
(* Specifications.  Spec: every operation, on a node wrapped by            *)
(* WrapObject, up to MaxCalls calls.  SpecIter: arrayForEach on a wrapped  *)
(* array of any content up to MaxArrLen elements, or on the array of the   *)
(* worked example.  SpecWrap: WrapObject and sub, so that nodes are        *)
(* wrapped again and derived nodes exist.                                  *)
(***************************************************************************)
Init ==
    /\ heap = InitHeap(MainArray)
    /\ nodes = <<>>
    /\ last = [op |-> "none"]
    /\ it = NoIter
    /\ ncalls = 0

Next ==
    \/ WrapObject(MaxCalls, {FALSE})
    \/ TypeOf(MaxCalls)
    \/ Numeric(MaxCalls)
    \/ Integer(MaxCalls)
    \/ Boolean(MaxCalls)
    \/ String(MaxCalls)
    \/ NotNull(MaxCalls)
    \/ IsNullCall(MaxCalls)
    \/ Unwrap(MaxCalls)
    \/ StringValidate(MaxCalls)
    \/ StringValidateByRegExp(MaxCalls)
    \/ StringToInteger(MaxCalls)
    \/ StringToFloat(MaxCalls)
    \/ JsonLoad(MaxCalls)
    \/ JsonSave(MaxCalls)
    \/ Sub(MaxCalls)
    \/ OptionalSub(MaxCalls)
    \/ Min(MaxCalls)
    \/ MinExclusive(MaxCalls)
    \/ Max(MaxCalls)
    \/ MaxExclusive(MaxCalls)
    \/ Range(MaxCalls)
    \/ SelectFromArray(MaxCalls)
    \/ SelectFromObject(MaxCalls)
    \/ SelectFromObjectOptional(MaxCalls)
    \/ SelectFromMap(MaxCalls)
    \/ SelectFromMapOptional(MaxCalls)
    \/ OneOf(MaxCalls)
    \/ CustomRule(MaxCalls)
    \/ ObjectForEach(MaxCalls)
    \/ ObjectForEachEx(MaxCalls)
    \/ ObjectSet(MaxCalls)
    \/ ObjectHas(MaxCalls)
    \/ ArrayLength(MaxCalls)
    \/ ArrayGetItem(MaxCalls)
    \/ ArraySetItem(MaxCalls)
    \/ ArrayPushItem(MaxCalls)
    \/ ArrayPopItem(MaxCalls)
    \/ ArrayShiftItem(MaxCalls)
    \/ ArrayUnshiftItem(MaxCalls)
    \/ ArrayMinLength(MaxCalls)
    \/ ArrayMaxLength(MaxCalls)
    \/ ArrayForEach(MaxCalls)
    \/ ArrayForEachStep
    \/ ArrayForEachReturn
    \/ ArrayForEachWithDeletion(MaxCalls)
    \/ ArrayForEachWithDeletionStep
    \/ ArrayForEachWithDeletionReturn

Spec == Init /\ [][Next]_vars

ItemValues == {Num(0), Num(1)}
LoveArray == <<Str(<<"I">>), S_love, Str(<<"y", "o", "u">>)>>
IterArrays == UNION {[1..k -> ItemValues] : k \in 0..MaxArrLen} \cup {Fixture, LoveArray}

InitIter ==
    /\ \E arr \in IterArrays : heap = InitHeap(arr)
    /\ nodes = <<NewNode(Obj(Addr.arr), RootPath)>>
    /\ last = [op |-> "none"]
    /\ it = NoIter
    /\ ncalls = 0

NextIter ==
    \/ ArrayForEach(MaxIterCalls)
    \/ ArrayForEachStep
    \/ ArrayForEachReturn
    \/ ArrayForEachWithDeletion(MaxIterCalls)
    \/ ArrayForEachWithDeletionStep
    \/ ArrayForEachWithDeletionReturn

SpecIter == InitIter /\ [][NextIter]_vars

\* The strings of the text conversions: every string of at most MaxStrLen
\* characters over signs, the point and digits, and the documented examples.
TextAlphabet == {"-", "+", ".", "0", "1", "7"}
TextExamples ==
    {<<"0", "0", "7">>, <<"0", "1", "1", "1">>, <<"-", "0", ".", "2">>, <<"1", "2", "0">>,
     <<"1", ".", "2", "5">>, <<"a">>}
Texts == UNION {[1..k -> TextAlphabet] : k \in 0..MaxStrLen} \cup TextExamples
TextRoots ==
    {Str(s) : s \in Texts} \cup {Null, Undefined, Num(7), Half, Bool(TRUE), Obj(Addr.obj)}

InitText ==
    /\ heap = InitHeap(MainArray)
    /\ \E root \in TextRoots : nodes = <<NewNode(root, RootPath)>>
    /\ last = [op |-> "none"]
    /\ it = NoIter
    /\ ncalls = 0

NextText ==
    \/ StringToInteger(MaxTextCalls)
    \/ StringToFloat(MaxTextCalls)

SpecText == InitText /\ [][NextText]_vars

\* The values of the JSON conversions: the primitives, the heap's objects,
\* and strings that are JSON texts or are not.
JsonTexts ==
    {<<"n", "u", "l", "l">>,
     <<"[", "1", ",", " ", "n", "u", "l", "l", "]">>,
     <<"{", "\"", "a", "\"", ":", "1", ".", "5", "e", "1", "}">>,
     <<"{", "\"", "a", "\"", ":", "}">>,
     <<"0", "1">>,
     <<"\"", "\\", "\n">>}
JsonRoots ==
    {Null, Undefined, Bool(TRUE), Bool(FALSE), Num(0), Num(-7), Num(12), Half, NaN,
     S_a, S_empty, S_12}
    \cup {Str(t) : t \in JsonTexts}
    \cup {Obj(Addr[k]) : k \in DOMAIN Addr}

InitJson ==
    /\ heap = InitHeap(MainArray)
    /\ \E root \in JsonRoots : nodes = <<NewNode(root, RootPath)>>
    /\ last = [op |-> "none"]
    /\ it = NoIter
    /\ ncalls = 0

NextJson ==
    \/ JsonSave(MaxJsonCalls)
    \/ JsonLoad(MaxJsonCalls)
    \/ Unwrap(MaxJsonCalls)

SpecJson == InitJson /\ [][NextJson]_vars

\* A node on which checks and in-place mutations follow one another.
MemoRoots == {Null, Num(1), S_a, Obj(Addr.obj), Obj(Addr.arr), Obj(Addr.noitems)}

InitMemo ==
    /\ heap = InitHeap(MainArray)
    /\ \E root \in MemoRoots : nodes = <<NewNode(root, RootPath)>>
    /\ last = [op |-> "none"]
    /\ it = NoIter
    /\ ncalls = 0

NextMemo ==
    \/ TypeOf(MaxMemoCalls)
    \/ NotNull(MaxMemoCalls)
    \/ Sub(MaxMemoCalls)
    \/ ObjectSet(MaxMemoCalls)
    \/ ArraySetItem(MaxMemoCalls)
    \/ ArrayPushItem(MaxMemoCalls)
    \/ ArrayPopItem(MaxMemoCalls)
    \/ ArrayShiftItem(MaxMemoCalls)
    \/ ArrayUnshiftItem(MaxMemoCalls)

SpecMemo == InitMemo /\ [][NextMemo]_vars

\* A node wrapping an array, under sequences of its mutators and readers.
ListRoots == {Obj(Addr.arr), Obj(Addr.noitems)}

InitList ==
    /\ heap = InitHeap(MainArray)
    /\ \E root \in ListRoots : nodes = <<NewNode(root, RootPath)>>
    /\ last = [op |-> "none"]
    /\ it = NoIter
    /\ ncalls = 0

NextList ==
    \/ ArrayPushItem(MaxListCalls)
    \/ ArrayUnshiftItem(MaxListCalls)
    \/ ArraySetItem(MaxListCalls)
    \/ ArrayPopItem(MaxListCalls)
    \/ ArrayShiftItem(MaxListCalls)
    \/ ArrayGetItem(MaxListCalls)
    \/ ArrayLength(MaxListCalls)

SpecList == InitList /\ [][NextList]_vars

\* The caller has wrapped a value and stored the node in an array:
\* var w = WrapObject(1), arr = [w, 1].  WrapObject is never forced.
NestArray == <<NodeRef(1), Num(1)>>

InitNest ==
    /\ heap = InitHeap(NestArray)
    /\ nodes = <<NewNode(Num(1), RootPath)>>
    /\ last = [op |-> "none"]
    /\ it = NoIter
    /\ ncalls = 0

NextNest ==
    \/ WrapObject(MaxNestCalls, {FALSE})
    \/ Sub(MaxNestCalls)
    \/ ArrayGetItem(MaxNestCalls)
    \/ ArrayPopItem(MaxNestCalls)
    \/ ArrayShiftItem(MaxNestCalls)
    \/ ArrayForEach(MaxNestCalls)
    \/ ArrayForEachStep
    \/ ArrayForEachReturn

SpecNest == InitNest /\ [][NextNest]_vars

NextWrap ==
    \/ WrapObject(MaxWrapCalls, BOOLEAN)
    \/ Sub(MaxWrapCalls)

SpecWrap == Init /\ [][NextWrap]_vars

(***************************************************************************)
(* The properties.  Recv and H0 are the receiver and the heap the latest   *)
(* call found.                                                             *)
(***************************************************************************)
Recv == last.before.node
H0 == last.before.heap

\* The kind of a value: null, undefined, number, boolean, string, Array
\* (sequence), Map (associative map), Set, Object (plain mapping), function.
KindOf(v, h) == IF v.t = "object" THEN h[v.a].cls ELSE v.t

ThresholdOps == {"min", "minExclusive", "max", "maxExclusive"}

\* a < b and a = b on numbers (false whenever one is NaN).
NumLess(a, b) == a.d # 0 /\ b.d # 0 /\ a.n * b.d < b.n * a.d
NumEq(a, b) == a.d # 0 /\ b.d # 0 /\ a.n * b.d = b.n * a.d

\* C1: on a plain mapping with a string key, and on an associative map with
\* any key, sub(k) returns a new node wrapping the value stored under k when
\* the mapping or map itself contains k, and fails with KeyNotFoundError
\* when it does not.
C1_SubChildOrKeyNotFound ==
    (last.op = "sub" /\ Recv.inner.t = "object") =>
        LET x == Recv.inner
            k == last.args[1]
            own == IndexOfKey(H0[x.a].keys, k.s)
        IN  /\ (H0[x.a].cls = "Object" /\ k.t = "string") =>
                  IF own > 0
                  THEN /\ last.out = "ok"
                       /\ last.ret.t = "traverse"
                       /\ nodes[last.ret.i].inner = H0[x.a].vals[own]
                  ELSE last.out = "KeyNotFoundError"
            /\ H0[x.a].cls = "Map" =>
                  IF MapHas(x, k, H0)
                  THEN /\ last.out = "ok"
                       /\ last.ret.t = "traverse"
                       /\ nodes[last.ret.i].inner = MapGet(x, k, H0)
                  ELSE last.out = "KeyNotFoundError"

\* C2: for a number n and a number threshold t, with the default comparator,
\* min(t) fails with ValueOutOfRangeError iff n < t, minExclusive(t) iff
\* n <= t, max(t) iff n > t, maxExclusive(t) iff n >= t; in every other case
\* the call returns the same node.
C2_ThresholdIffOutOfRange ==
    (/\ last.op \in ThresholdOps
     /\ Recv.inner.t = "number"
     /\ last.args[1].t = "number"
     /\ last.args[2] = DefaultComparator) =>
        LET n == Recv.inner
            t == last.args[1]
            violated ==
                CASE last.op = "min" -> NumLess(n, t)
                  [] last.op = "minExclusive" -> NumLess(n, t) \/ NumEq(n, t)
                  [] last.op = "max" -> NumLess(t, n)
                  [] last.op = "maxExclusive" -> NumLess(t, n) \/ NumEq(n, t)
        IN  IF violated
            THEN last.out = "ValueOutOfRangeError"
            ELSE last.out = "ok" /\ last.ret = NodeRef(last.self)

C2_Witness ==
    /\ last.op = "minExclusive"
    /\ Recv.inner = Num(1)
    /\ last.args = <<Num(1), DefaultComparator>>
    /\ last.out = "ValueOutOfRangeError"

\* C3: for a non-null value and a threshold of another kind, min,
\* minExclusive, max and maxExclusive fail with ParameterError, and the
\* comparator is not consulted.
C3_OtherKindIsParameterError ==
    (/\ last.op \in ThresholdOps
     /\ Recv.inner # Null
     /\ KindOf(Recv.inner, H0) # KindOf(last.args[1], H0)) =>
        last.out = "ParameterError" /\ last.cmp = 0

\* The elements of orig whose original index (from 0) is not in deleted.
RECURSIVE KeepFrom(_, _, _)
KeepFrom(orig, deleted, i) ==
    IF i >= Len(orig) THEN <<>>
    ELSE (IF i \in deleted THEN <<>> ELSE <<orig[i + 1]>>) \o KeepFrom(orig, deleted, i + 1)

Keep(orig, deleted) == KeepFrom(orig, deleted, 0)

Ascending(len) == [i \in 1..len |-> i - 1]
Descending(len) == [i \in 1..len |-> len - i]

\* The latest arrayForEach call went through its loop and returned.
ForEachReturned == it.phase = "done" /\ last.out = "ok"

IterItems == heap[nodes[it.self].inner.a].items

\* C4: when the callback never invokes stop, arrayForEach invokes it exactly
\* once for each element of the original array, in ascending original-index
\* order (reverse = false) or descending original-index order (reverse =
\* true), whichever elements the callback deletes.
C4_EachElementOnceInOrder ==
    (ForEachReturned /\ ~it.swStop) =>
        /\ it.visited = IF it.reverse THEN Descending(Len(it.orig))
                        ELSE Ascending(Len(it.orig))
        /\ last.cb = Len(it.orig)

C4_Witness ==
    /\ ForEachReturned
    /\ ~it.swStop
    /\ ~it.reverse
    /\ Len(it.orig) = 3
    /\ it.deleted = {0, 1}

\* C5: while arrayForEach runs and when it returns, stop never invoked, the
\* array holds exactly the original elements for which the callback did not
\* invoke delete, in their original order: a delete removes the element of
\* the callback call that invoked it and no other.
C5_ArrayIsOriginalMinusDeleted ==
    (it.phase \in {"loop", "done"} /\ last.out \in {"running", "ok"} /\ ~it.swStop) =>
        /\ IterItems = Keep(it.orig, it.deleted)
        /\ it.idx = Keep(Ascending(Len(it.orig)), it.deleted)

C5_Witness ==
    /\ ForEachReturned
    /\ ~it.swStop
    /\ it.reverse
    /\ Len(it.orig) = 3
    /\ it.deleted = {1}
    /\ Len(IterItems) = 2

\* C6: once a callback call invokes stop, the callback is not invoked again
\* in that arrayForEach call; a delete invoked by the same callback call is
\* applied before the call returns; every element not visited stays in the
\* array, in its original order.
C6_StopEndsIteration ==
    it.phase \in {"loop", "done"} =>
        /\ it.afterStop = 0
        /\ (ForEachReturned /\ it.swStop) =>
              /\ IterItems = Keep(it.orig, it.deleted)
              /\ it.lastDeleted =>
                    \A j \in 1..Len(it.idx) : it.idx[j] # it.visited[Len(it.visited)]
              /\ \A i \in 0..(Len(it.orig) - 1) :
                    (\A j \in 1..Len(it.visited) : it.visited[j] # i) =>
                        \E j \in 1..Len(it.idx) : it.idx[j] = i

C6_Witness ==
    /\ ForEachReturned
    /\ it.swStop
    /\ it.lastDeleted
    /\ Len(it.orig) = 3
    /\ Len(it.visited) = 2
    /\ Len(IterItems) = 2

\* C7: arrayForEach over [-2,-1,0,1,2,3,4,5] with reverse = true and a
\* callback that deletes even values and stops at a value <= 0 leaves
\* [-2,-1,1,3,5], having visited 5,4,3,2,1,0 in that order (never -1, -2).
C7_WorkedExample ==
    (/\ it.phase = "done"
     /\ it.orig = Fixture
     /\ it.reverse
     /\ it.cb = CbFixture) =>
        /\ last.out = "ok"
        /\ IterItems = <<Num(-2), Num(-1), Num(1), Num(3), Num(5)>>
        /\ [j \in 1..Len(it.visited) |-> it.orig[it.visited[j] + 1]]
              = <<Num(5), Num(4), Num(3), Num(2), Num(1), Num(0)>>

C7_Witness ==
    /\ ForEachReturned
    /\ it.orig = Fixture
    /\ it.reverse
    /\ it.cb = CbFixture
    /\ Len(IterItems) = 5

\* C8: WrapObject(w, false) on a node w returns w itself and constructs
\* nothing; WrapObject(w, true) returns a new node, distinct from every
\* other, with path "/" and wrapping w; WrapObject of a value that is no
\* node returns a new node with path "/" wrapping that value.
C8_WrapIdempotentUnlessForced ==
    [][(ncalls' = ncalls + 1 /\ last'.op = "WrapObject") =>
          LET inner == last'.args[1]
              force == last'.args[2].b
          IN  IF inner.t = "traverse" /\ ~force
              THEN /\ last'.ret = inner
                   /\ nodes' = nodes
              ELSE /\ last'.ret = NodeRef(Len(nodes) + 1)
                   /\ Len(nodes') = Len(nodes) + 1
                   /\ \A i \in DOMAIN nodes : nodes'[i] = nodes[i]
                   /\ nodes'[Len(nodes) + 1].path = RootPath
                   /\ nodes'[Len(nodes) + 1].inner = inner]_vars

C8_Witness ==
    /\ last.op = "WrapObject"
    /\ last.args[1].t = "traverse"
    /\ last.args[2] = Bool(FALSE)
    /\ last.ret = last.args[1]
    /\ nodes[last.ret.i].path # RootPath

NullNoOps ==
    {"typeOf", "numeric", "boolean", "string", "integer", "stringValidate",
     "stringValidateByRegExp", "min", "minExclusive", "max", "maxExclusive", "range",
     "oneOf", "arrayMinLength", "arrayMaxLength", "objectSet", "arrayPushItem",
     "arrayUnshiftItem", "objectForEach", "objectForEachEx", "arrayForEach"}

\* The operations that start with notNull().
RequireNonNull ==
    {"notNull", "stringToInteger", "stringToFloat", "sub", "optionalSub", "selectFromArray",
     "selectFromObject", "selectFromObjectOptional", "objectHas", "arrayLength",
     "arrayGetItem", "arrayPopItem", "arrayShiftItem"}

\* The arguments the claim names: a kind for typeOf, a string table for
\* stringValidate, a pattern for stringValidateByRegExp.
ArgsAsNamed ==
    CASE last.op = "typeOf" -> last.args[1].t = "function"
      [] last.op = "stringValidate" -> last.args[1].t = "string"
      [] last.op = "stringValidateByRegExp" -> last.args[1].t = "regexp"
      [] OTHER -> TRUE

\* C9: on a node wrapping null, typeOf, numeric, boolean, string, integer,
\* stringValidate, stringValidateByRegExp, min, minExclusive, max,
\* maxExclusive, range, oneOf, arrayMinLength, arrayMaxLength, objectSet,
\* arrayPushItem, arrayUnshiftItem, objectForEach, objectForEachEx and
\* arrayForEach return the same node, invoke no callback and change neither
\* the heap nor the node's value and path; the failure for being null
\* (TypeError) comes only from notNull and the operations that start with
\* it, which all fail so.
C9_NullIsNoOp ==
    (last.op # "none" /\ last.op # "WrapObject" /\ Recv.inner = Null) =>
        /\ (last.op \in NullNoOps /\ ArgsAsNamed) =>
              /\ last.out = "ok"
              /\ last.ret = NodeRef(last.self)
              /\ last.cb = 0
              /\ last.kids = <<>>
              /\ it.phase = "idle"
              /\ heap = H0
              /\ nodes[last.self].inner = Null
              /\ nodes[last.self].path = Recv.path
        /\ last.out = "TypeError" => last.op \in RequireNonNull
        /\ last.op \in RequireNonNull => last.out = "TypeError"

C9_Witness ==
    /\ last.op = "arrayForEach"
    /\ Recv.inner = Null
    /\ last.args[1] = CbFree
    /\ last.out = "ok"
    /\ last.ret = NodeRef(last.self)

\* C10: every failure of an operation is the base Error or one of its eight
\* subclasses, for every wrapped value and every argument.
C10_FailuresInTaxonomy ==
    last.op # "none" => last.out \in {"ok", "running"} \cup TraverseErrors

\* C11: optionalSub(key, d) agrees with sub(key) except for a missing key:
\* where sub returns a child, optionalSub returns a child with the same value
\* and path; where sub fails with KeyNotFoundError, optionalSub returns a new
\* node wrapping d at the path sub would have used; where sub fails
\* otherwise (TypeError, ParameterError), optionalSub fails the same way.
C11_OptionalSubAgreesWithSub ==
    last.op = "optionalSub" =>
        LET s == sub(Recv, last.args[1], H0, nodes)
        IN  CASE s.out = "ok" ->
                    /\ last.out = "ok"
                    /\ last.ret.t = "traverse"
                    /\ nodes[last.ret.i].inner = s.new[1].inner
                    /\ nodes[last.ret.i].path = s.new[1].path
              [] s.out = "KeyNotFoundError" ->
                    /\ last.out = "ok"
                    /\ last.ret.t = "traverse"
                    /\ nodes[last.ret.i].inner = last.args[2]
                    /\ nodes[last.ret.i].path
                          = GetSubPath(Recv.path, ToStr(last.args[1], H0))
              [] OTHER -> last.out = s.out

C11_Witness ==
    /\ last.op = "optionalSub"
    /\ Recv.inner = Obj(Addr.obj)
    /\ last.args = <<S_z, Num(7)>>
    /\ last.out = "ok"
    /\ nodes[last.ret.i].inner = Num(7)
    /\ nodes[last.ret.i].path = <<"/", "z">>

\* The node the latest call returned.
RetNode == nodes[last.ret.i]

\* C12: for an array from of length L, selectFromArray(from) on an integer i
\* returns a new node wrapping from[i] at the path extended by [i] iff
\* 0 <= i < L, and fails with IndexOutOfRangeError otherwise (also for
\* L = 0); on null and on a value that is no integer it fails with TypeError.
C12_SelectFromArray ==
    (/\ last.op = "selectFromArray"
     /\ last.args[1].t = "object"
     /\ H0[last.args[1].a].cls = "Array") =>
        LET v == Recv.inner
            from == H0[last.args[1].a].items
        IN  IF v.t = "number" /\ v.d = 1
            THEN IF 0 <= v.n /\ v.n < Len(from)
                 THEN /\ last.out = "ok"
                      /\ last.ret.t = "traverse"
                      /\ RetNode.inner = from[v.n + 1]
                      /\ RetNode.path = GetSubPath(Recv.path, IndexSegment(v.n))
                 ELSE last.out = "IndexOutOfRangeError"
            ELSE last.out = "TypeError"

\* The same statement for every wrapped value but undefined.
C12_SelectFromArrayDefined ==
    (last.op = "selectFromArray" /\ Recv.inner # Undefined) => C12_SelectFromArray

\* C13: oneOf with an empty plain mapping fails with KeyNotFoundError for
\* every wrapped value that is not null.
C13_OneOfEmptyMapping ==
    (/\ last.op = "oneOf"
     /\ Recv.inner # Null
     /\ last.args[1].t = "object"
     /\ H0[last.args[1].a].cls = "Object"
     /\ H0[last.args[1].a].keys = <<>>) =>
        last.out = "KeyNotFoundError"

\* Whether v is found in the selections S, by S's own content: a member of a
\* Set, a key of a Map, an element of an Array, the name of one of a plain
\* object's own properties.
FoundIn(v, S, h) ==
    CASE h[S.a].cls = "Set" -> \E i \in 1..Len(h[S.a].items) : h[S.a].items[i] = v
      [] h[S.a].cls = "Map" -> \E i \in 1..Len(h[S.a].mk) : h[S.a].mk[i] = v
      [] h[S.a].cls = "Array" -> \E i \in 1..Len(h[S.a].items) : h[S.a].items[i] = v
      [] OTHER -> \E i \in 1..Len(h[S.a].keys) : h[S.a].keys[i] = ToStr(v, h)

\* C14: for a value v that is not null, oneOf(S) returns the same node iff v
\* is a member of the set S, a key of the map or plain mapping S, or an
\* element of the sequence S; it fails with KeyNotFoundError when v is not
\* found, and with ParameterError when S is null, a number, a string or a
\* boolean.
C14_OneOfMembership ==
    (last.op = "oneOf" /\ Recv.inner # Null) =>
        LET S == last.args[1]
        IN  IF S.t = "object"
            THEN IF FoundIn(Recv.inner, S, H0)
                 THEN last.out = "ok" /\ last.ret = NodeRef(last.self)
                 ELSE last.out = "KeyNotFoundError"
            ELSE last.out = "ParameterError"

\* The same statement for the values whose string conversion is not the name
\* of a member every object inherits.
C14_OneOfMembershipOwnNames ==
    (last.op = "oneOf" /\ ToStr(Recv.inner, H0) \notin ObjectProtoKeys) => C14_OneOfMembership

SubOps == {"sub", "optionalSub"}

\* C15: on a plain mapping, sub(key) and optionalSub(key, d) fail with
\* ParameterError for every key that is not a string (null and undefined
\* included); on an associative map a key of any type is accepted; on a
\* value that is no object (and not null) they fail with TypeError.
C15_SubKeyTypes ==
    (last.op \in SubOps /\ Recv.inner # Null) =>
        LET x == Recv.inner
            k == last.args[1]
        IN  CASE x.t = "object" /\ H0[x.a].cls = "Object" ->
                    k.t # "string" => last.out = "ParameterError"
              [] x.t = "object" /\ H0[x.a].cls = "Map" ->
                    last.out \in {"ok", "KeyNotFoundError"}
              [] x.t \in {"undefined", "number", "string", "boolean"} ->
                    last.out = "TypeError"
              [] OTHER -> TRUE

\* The same statement for the keys that are neither null nor undefined.
C15_SubKeyTypesDefinedKeys ==
    (last.op \in SubOps /\ ~IsNullish(last.args[1])) => C15_SubKeyTypes

SelectObjectOps == {"selectFromObject", "selectFromObjectOptional"}
SelectMapOps == {"selectFromMap", "selectFromMapOptional"}

\* C16: with a string in the node, selectFromObject(from) and
\* selectFromObjectOptional(from, d) fail with ParameterError whenever
\* `from` is no object; selectFromMap(from) and selectFromMapOptional(from, d)
\* fail with ParameterError whenever `from` is not a Map (null, a number, a
\* string, a plain object).
C16_SelectFromRejectsBadFrom ==
    /\ (last.op \in SelectObjectOps /\ Recv.inner.t = "string" /\ InThrows(last.args[1]))
           => last.out = "ParameterError"
    /\ (last.op \in SelectMapOps /\ ClassOf(last.args[1], H0) # "Map")
           => last.out = "ParameterError"

\* The part of C16 that the code keeps: with a proper `from` no call fails
\* with anything but the documented errors.
C16_SelectFromProperFrom ==
    /\ (last.op \in SelectObjectOps /\ ~InThrows(last.args[1]))
           => last.out \in {"ok", "KeyNotFoundError", "TypeError", "EngineTypeError"}
    /\ (last.op \in SelectMapOps /\ ClassOf(last.args[1], H0) = "Map")
           => last.out \in {"ok", "KeyNotFoundError"}

\* C17: selectFromMap(from) and selectFromMapOptional(from, d) on a node
\* whose value is null fail with TypeError, whether or not the Map `from`
\* holds a null key.
C17_SelectFromMapNullIsTypeError ==
    (last.op \in SelectMapOps /\ Recv.inner = Null /\ ClassOf(last.args[1], H0) = "Map")
        => last.out = "TypeError"

\* What the code does with a null value: it is looked up like any key.
C17_SelectFromMapNullIsLookedUp ==
    (last.op \in SelectMapOps /\ Recv.inner = Null /\ ClassOf(last.args[1], H0) = "Map")
        => /\ last.out = "ok"
           /\ RetNode.inner = MapGet(last.args[1], Null, H0)
           /\ RetNode.path = Recv.path \o <<"n", "u", "l", "l">>

\* An optional "-", then "0" alone or digits that do not start with "0".
StrictIntegerText(s) ==
    LET b == IF Len(s) >= 1 /\ s[1] = "-" THEN Tail(s) ELSE s
    IN  /\ Len(b) >= 1
        /\ \A i \in 1..Len(b) : IsDigit(b[i])
        /\ Len(b) > 1 => b[1] # "0"

P_strToInt == <<"[", "s", "t", "r", "-", ">", "i", "n", "t", "]">>
P_strToFloat == <<"[", "s", "t", "r", "-", ">", "f", "l", "o", "a", "t", "]">>

\* C18: stringToInteger on a string succeeds iff the string is an optional
\* "-" followed by "0" or by a non-zero digit and further digits; it then
\* returns a new node wrapping that integer ("-0" gives 0) at the path
\* extended by [str->int]; on any other string it fails with FormatError;
\* on null and on a value that is no string it fails with TypeError.
C18_StringToInteger ==
    last.op = "stringToInteger" =>
        LET x == Recv.inner
        IN  IF x.t # "string" THEN last.out = "TypeError"
            ELSE IF ~StrictIntegerText(x.s) THEN last.out = "FormatError"
            ELSE /\ last.out = "ok"
                 /\ last.ret = NodeRef(Len(nodes))
                 /\ last.ret # NodeRef(last.self)
                 /\ NumberIsInteger(RetNode.inner)
                 /\ NumToStr(RetNode.inner) = (IF x.s = <<"-", "0">> THEN <<"0">> ELSE x.s)
                 /\ RetNode.path = GetSubPath(Recv.path, P_strToInt)

\* The same statement for every wrapped value but undefined.
C18_StringToIntegerDefined ==
    (last.op = "stringToInteger" /\ Recv.inner # Undefined) => C18_StringToInteger

\* The documented examples of stringToInteger.
C18_Examples ==
    last.op = "stringToInteger" =>
        /\ Recv.inner = Str(<<"0">>) => last.out = "ok" /\ RetNode.inner = Num(0)
        /\ Recv.inner = Str(<<"-", "0">>) => last.out = "ok" /\ RetNode.inner = Num(0)
        /\ Recv.inner = Str(<<"-", "7">>) => last.out = "ok" /\ RetNode.inner = Num(-7)
        /\ Recv.inner \in {Str(<<"0", "0", "7">>), Str(<<"7", ".", "0">>), Str(<<>>),
                           Str(<<"-">>), Str(<<"+", "7">>)} => last.out = "FormatError"

\* A strict-integer text, optionally followed by "." and one or more digits.
StrictNumericText(s) ==
    \E k \in 0..Len(s) :
        /\ StrictIntegerText(SubSeq(s, 1, k))
        /\ \/ k = Len(s)
           \/ /\ s[k + 1] = "."
              /\ k + 2 <= Len(s)
              /\ \A i \in (k + 2)..Len(s) : IsDigit(s[i])

\* C19: stringToFloat on a string succeeds iff the string is a strict-integer
\* text optionally followed by "." and one or more digits, and fails with
\* FormatError otherwise: "0" and "-0.2" succeed (giving 0 and -0.2), ".2",
\* "0111", "1." and "" fail; every string stringToInteger accepts,
\* stringToFloat accepts.
C19_StringToFloat ==
    (last.op = "stringToFloat" /\ Recv.inner.t = "string") =>
        LET s == Recv.inner.s
        IN  /\ last.out = (IF StrictNumericText(s) THEN "ok" ELSE "FormatError")
            /\ last.out = "ok" =>
                  /\ last.ret = NodeRef(Len(nodes)) /\ last.ret # NodeRef(last.self)
                  /\ RetNode.path = GetSubPath(Recv.path, P_strToFloat)
            /\ s = <<"0">> => last.out = "ok" /\ RetNode.inner = Num(0)
            /\ s = <<"-", "0", ".", "2">> =>
                  last.out = "ok" /\ RetNode.inner = [t |-> "number", n |-> -1, d |-> 5]
            /\ s = <<"1", ".", "2", "5">> =>
                  last.out = "ok" /\ RetNode.inner = [t |-> "number", n |-> 5, d |-> 4]
            /\ s \in {<<".", "2">>, <<"0", "1", "1", "1">>, <<"1", ".">>, <<>>} =>
                  last.out = "FormatError"
            /\ stringToInteger(Recv, H0).out = "ok" => last.out = "ok"

C19_Witness ==
    /\ last.op = "stringToFloat"
    /\ Recv.inner = Str(<<"-", "0", ".", "2">>)
    /\ last.out = "ok"
    /\ RetNode.inner = [t |-> "number", n |-> -1, d |-> 5]

\* a <= b on numbers: false when either is NaN.
NumLessEq(a, b) == NumLess(a, b) \/ NumEq(a, b)

\* range(lo, hi, cmp) ends as min(lo, cmp) followed by max(hi, cmp) on the
\* same node ends: it returns the node itself iff both pass, and fails with
\* the error of min when min fails, else with the error of max.
RangeEndsAsMinThenMax ==
    last.op = "range" =>
        LET lo == last.args[1]
            hi == last.args[2]
            cmp == last.args[3]
            a == min(Recv, lo, cmp, H0)
            b == max(a.n, hi, cmp, a.h)
        IN  /\ (last.out = "ok") <=> (a.out = "ok" /\ b.out = "ok")
            /\ last.out = "ok" => last.ret = NodeRef(last.self)
            /\ a.out # "ok" => last.out = a.out
            /\ (a.out = "ok" /\ b.out # "ok") => last.out = b.out
            /\ heap = H0 /\ nodes[last.self].inner = Recv.inner

\* The last call is range on a number between number bounds under the
\* default comparator.
RangeOnNumbers ==
    /\ last.op = "range"
    /\ last.args[3] = DefaultComparator
    /\ Recv.inner.t = "number" /\ last.args[1].t = "number" /\ last.args[2].t = "number"

\* C20: range(lo, hi, cmp) has the outcome of min(lo, cmp) followed by
\* max(hi, cmp) on the same node: it returns the node itself iff both pass
\* (for same-kind numbers, iff lo <= value <= hi), and otherwise fails with
\* the error of the first of the two that fails, min's check first.
C20_RangeIsMinThenMax ==
    /\ RangeEndsAsMinThenMax
    /\ RangeOnNumbers =>
          /\ last.out \in {"ok", "ValueOutOfRangeError"}
          /\ (last.out = "ok") <=>
                (NumLessEq(last.args[1], Recv.inner) /\ NumLessEq(Recv.inner, last.args[2]))

\* The same where the value is a number other than NaN.
C20_RangeIsMinThenMaxUnlessNaN ==
    /\ RangeEndsAsMinThenMax
    /\ (RangeOnNumbers /\ Recv.inner # NaN) =>
          /\ last.out \in {"ok", "ValueOutOfRangeError"}
          /\ (last.out = "ok") <=>
                (NumLessEq(last.args[1], Recv.inner) /\ NumLessEq(Recv.inner, last.args[2]))

\* range fails with min's error although max would fail with another one.
C20_Witness ==
    /\ last.op = "range"
    /\ last.out = "ParameterError"
    /\ min(Recv, last.args[1], last.args[3], H0).out = "ParameterError"
    /\ max(Recv, last.args[2], last.args[3], H0).out = "ValueOutOfRangeError"

\* The receiver wraps an array (before the call).
RecvIsArray == Recv.inner.t = "object" /\ H0[Recv.inner.a].cls = "Array"
ItemsBefore == H0[Recv.inner.a].items
ItemsAfter == heap[Recv.inner.a].items

\* What arraySetItem(offset, v) does on an array when the offsets in
\* (refused) fail with IndexOutOfRangeError.
SetItemContract(refused) ==
    LET offset == last.args[1]
        v == last.args[2]
    IN  IF ~NumberIsInteger(offset) THEN last.out = "ParameterError" /\ heap = H0
        ELSE IF offset.n \in refused THEN last.out = "IndexOutOfRangeError" /\ heap = H0
        ELSE /\ last.out = "ok"
             /\ last.ret = NodeRef(last.self)
             /\ offset.n + 1 \in DOMAIN ItemsAfter
             /\ ItemsAfter[offset.n + 1] = v
             /\ \A a \in DOMAIN H0 : a # Recv.inner.a => heap[a] = H0[a]

\* C21 as stated: on an array of length L, arraySetItem(offset, v) with an
\* integer offset fails with IndexOutOfRangeError exactly when offset < 0 or
\* offset > L, otherwise stores v at the offset and returns the same node; a
\* non-integer offset fails with ParameterError.
C21_SetItemRefusesAboveLength ==
    (last.op = "arraySetItem" /\ RecvIsArray) =>
        SetItemContract({k \in -2..(MaxArrLen + 3) : k < 0 \/ k > Len(ItemsBefore)})

\* C21, amended: the offset L itself is refused too (IndexOutOfRangeError
\* exactly when offset < 0 or offset >= L); an accepted offset replaces one
\* element and leaves the length and the other elements as they were.
C21_SetItemRefusesFromLength ==
    (last.op = "arraySetItem" /\ RecvIsArray) =>
        /\ SetItemContract({k \in -2..(MaxArrLen + 3) : k < 0 \/ k >= Len(ItemsBefore)})
        /\ Len(ItemsAfter) = Len(ItemsBefore)
        /\ \A i \in DOMAIN ItemsBefore :
              (last.out # "ok" \/ i # last.args[1].n + 1) => ItemsAfter[i] = ItemsBefore[i]

\* arraySetItem at the offset equal to the length is refused.
C21_Witness ==
    /\ last.op = "arraySetItem" /\ RecvIsArray
    /\ NumberIsInteger(last.args[1])
    /\ last.args[1].n = Len(ItemsBefore)
    /\ Len(ItemsBefore) > 0
    /\ last.out = "IndexOutOfRangeError"

\* C22: on an array of length L > 0, arrayPopItem removes the last element
\* and returns a new node wrapping it at the path extended by [L-1];
\* arrayShiftItem removes the first element and returns a new node wrapping
\* it at the path extended by [0]; the other elements keep their order; on
\* an empty array both fail with IndexOutOfRangeError and the array stays
\* empty.
C22_PopAndShift ==
    (last.op \in {"arrayPopItem", "arrayShiftItem"} /\ RecvIsArray) =>
        LET L == Len(ItemsBefore)
            pop == last.op = "arrayPopItem"
        IN  IF L = 0
            THEN last.out = "IndexOutOfRangeError" /\ ItemsAfter = <<>> /\ heap = H0
            ELSE /\ last.out = "ok"
                 /\ last.ret = NodeRef(Len(nodes)) /\ last.ret # NodeRef(last.self)
                 /\ Len(ItemsAfter) = L - 1
                 /\ \A i \in 1..(L - 1) :
                       ItemsAfter[i] = ItemsBefore[IF pop THEN i ELSE i + 1]
                 /\ RetNode.inner = ItemsBefore[IF pop THEN L ELSE 1]
                 /\ RetNode.path =
                       GetSubPath(Recv.path,
                                  <<"[">> \o NatToStr(IF pop THEN L - 1 ELSE 0) \o <<"]">>)
                 /\ \A a \in DOMAIN H0 : a # Recv.inner.a => heap[a] = H0[a]

C22_Witness ==
    /\ last.op = "arrayPopItem" /\ RecvIsArray
    /\ Len(ItemsBefore) = 2
    /\ last.out = "ok"
    /\ RetNode.inner = ItemsBefore[2]
    /\ RetNode.path = <<"/", "[", "1", "]">>

\* What the forward arrayForEach loop leaves of (items) when the callback
\* invokes delete exactly on the original elements in (dels) and never
\* stop; idx holds the original index of each remaining element.
RECURSIVE ForwardForEach(_, _, _, _)
ForwardForEach(items, idx, cursor, dels) ==
    IF ~LoopCondition(FALSE, cursor, Len(items)) THEN items
    ELSE LET del == idx[cursor + 1] \in dels
         IN  ForwardForEach(IF del THEN Splice1(items, cursor) ELSE items,
                            IF del THEN Splice1(idx, cursor) ELSE idx,
                            NextCursor(FALSE, cursor, del, FALSE), dels)

LegacyLoop == it.phase \in {"loop", "done"} /\ it.legacy /\ last.out \in {"running", "ok"}

\* C23: arrayForEachWithDeletion invokes the callback exactly once per
\* original element, in ascending order, and ends (each iteration brings the
\* cursor one closer to the end of the array); when it returns, the array
\* holds exactly the elements for which the callback returned false, in
\* original order (["I", "love", "you"] with a callback returning true for
\* every item except "love" leaves ["love"]), which is what the forward
\* arrayForEach leaves when its callback deletes exactly those elements.
C23_LegacyDeletion ==
    LegacyLoop =>
        /\ Len(IterItems) - it.cursor = Len(it.orig) - Len(it.visited)
        /\ it.visited = SubSeq(Ascending(Len(it.orig)), 1, Len(it.visited))
        /\ last.cb = Len(it.visited)
        /\ IterItems = Keep(it.orig, it.deleted)
        /\ it.phase = "done" =>
              /\ last.ret = NodeRef(it.self)
              /\ last.cb = Len(it.orig)
              /\ IterItems =
                    ForwardForEach(it.orig, Ascending(Len(it.orig)), 0, it.deleted)
              /\ (it.orig = LoveArray /\ it.cb = CbUnlessLove) => IterItems = <<S_love>>

C23_Witness ==
    /\ LegacyLoop
    /\ it.phase = "done"
    /\ it.orig = LoveArray
    /\ it.cb = CbUnlessLove
    /\ it.deleted = {0, 2}
    /\ IterItems = <<S_love>>

\* A JSON-representable value: null, a boolean, a number (NaN is not one), a
\* string, an array or a plain object of such values.
RECURSIVE IsJson(_, _)
IsJson(v, h) ==
    CASE v.t \in {"null", "boolean", "string"} -> TRUE
      [] v.t = "number" -> v.d # 0
      [] v.t = "object" /\ h[v.a].cls = "Array" ->
            \A i \in DOMAIN h[v.a].items : IsJson(h[v.a].items[i], h)
      [] v.t = "object" /\ h[v.a].cls = "Object" ->
            \A i \in DOMAIN h[v.a].vals : IsJson(h[v.a].vals[i], h)
      [] OTHER -> FALSE

\* Deep equality of two JSON-representable values: arrays element by
\* element, plain objects key by key, whatever the order of their keys.
RECURSIVE DeepEqual(_, _, _)
DeepEqual(a, b, h) ==
    IF a.t # "object" \/ b.t # "object" THEN a = b
    ELSE LET x == h[a.a]
             y == h[b.a]
         IN  /\ x.cls = y.cls
             /\ Len(x.items) = Len(y.items)
             /\ \A i \in DOMAIN x.items : DeepEqual(x.items[i], y.items[i], h)
             /\ {x.keys[i] : i \in DOMAIN x.keys} = {y.keys[i] : i \in DOMAIN y.keys}
             /\ Len(x.keys) = Len(y.keys)
             /\ \A i \in DOMAIN x.keys :
                   DeepEqual(x.vals[i], y.vals[IndexOfKey(y.keys, x.keys[i])], h)

JsonRoot == nodes[1].inner
P_saved == GetSubPath(RootPath, P_jsonSave)
P_savedLoaded == GetSubPath(P_saved, P_jsonLoad)

\* C24: for a JSON-representable root value s, jsonSave succeeds and gives a
\* node whose value is a string, jsonLoad of that node succeeds, and the
\* value loaded (what unwrap returns) is deep-equal to s.
C24_JsonRoundTrip ==
    IsJson(JsonRoot, heap) =>
        /\ (last.op = "jsonSave" /\ Recv.path = RootPath) =>
              last.out = "ok" /\ RetNode.inner.t = "string" /\ RetNode.path = P_saved
        /\ (last.op = "jsonLoad" /\ Recv.path = P_saved) =>
              last.out = "ok" /\ RetNode.path = P_savedLoaded
        /\ \A i \in DOMAIN nodes :
              /\ nodes[i].path = P_saved => nodes[i].inner.t = "string"
              /\ nodes[i].path = P_savedLoaded => DeepEqual(nodes[i].inner, JsonRoot, heap)
        /\ (last.op = "unwrap" /\ Recv.path = P_savedLoaded) =>
              last.out = "ok" /\ DeepEqual(last.ret, JsonRoot, heap)

\* The plain object of the heap went through the round trip: unwrap gives a
\* new object that is deep-equal to it.
C24_Witness ==
    /\ last.op = "unwrap"
    /\ Recv.path = P_savedLoaded
    /\ JsonRoot = Obj(Addr.obj)
    /\ last.ret.t = "object"
    /\ last.ret # JsonRoot
    /\ DeepEqual(last.ret, JsonRoot, heap)

IterationOps == {"arrayForEach", "arrayForEachWithDeletion", "objectForEach", "objectForEachEx"}

\* The latest call was a method call that failed.
CallFailed == last.op \notin {"none", "WrapObject"} /\ last.out \notin {"ok", "running"}

\* C25: a failing call changes nothing observable: when a mutator
\* (objectSet, arraySetItem, arrayPopItem, arrayShiftItem, arrayPushItem,
\* arrayUnshiftItem) fails, every object holds what it held before the
\* call; a failing assertion, conversion or navigation call leaves the
\* wrapped value, the node's path and what unwrap() returns as they were.
C25_FailureChangesNothing ==
    (CallFailed /\ last.op \notin IterationOps) =>
        /\ heap = H0
        /\ nodes[last.self].inner = Recv.inner
        /\ nodes[last.self].path = Recv.path
        /\ unwrap(nodes[last.self], heap).ret = unwrap(Recv, H0).ret
        /\ last.ret = RNone

\* A mutator failed on its bounds check with the array as it was.
C25_Witness ==
    /\ CallFailed
    /\ last.op \in {"arraySetItem", "arrayPopItem", "arrayShiftItem"}
    /\ last.out = "IndexOutOfRangeError"
    /\ RecvIsArray
    /\ ItemsAfter = ItemsBefore

\* The kinds typeOf is asked about.
Kinds == {Fn("Number"), Fn("String"), Fn("Object"), Fn("Array")}

\* A node just made for the same value: its checks are fresh.
Fresh(n) == NewNode(n.inner, n.path)

\* The value is of kind k: a primitive of that type tag, or an object whose
\* class is k or derives from it.
OfKind(v, k, h) ==
    CASE k = Fn("Number") -> v.t = "number"
      [] k = Fn("String") -> v.t = "string"
      [] OTHER -> k.f \in ProtoChain(ClassOf(v, h))

\* C26: on every node, after any sequence of checks, navigation and
\* in-place mutations, notNull() and typeOf(k) end as they do on a fresh
\* node for the same value: notNull() succeeds iff the value is not null,
\* typeOf(k) succeeds iff the value is null or of kind k; and a typeOf(k)
\* that failed fails with TypeError on every later call with the same k.
C26_MemoAgreesWithFreshCheck ==
    \A i \in DOMAIN nodes :
        LET n == nodes[i]
        IN  /\ (NotNullN(n).out = "ok") <=> (n.inner # Null)
            /\ NotNullN(n).out = NotNullN(Fresh(n)).out
            /\ \A k \in Kinds :
                  /\ TypeOfN(n, k, heap).out = TypeOfN(Fresh(n), k, heap).out
                  /\ n.inner # Undefined =>
                        ((TypeOfN(n, k, heap).out = "ok")
                            <=> (n.inner = Null \/ OfKind(n.inner, k, heap)))
                  /\ (PckHas(n, k) /\ ~PckGet(n, k)) => TypeOfN(n, k, heap).out = "TypeError"

\* No object holds a property named constructor of its own.
NoOwnConstructor ==
    \A a \in DOMAIN heap : \A j \in DOMAIN heap[a].keys : heap[a].keys[j] # K_constructor

\* The same statement as long as no mutator has given an object a
\* constructor property of its own.
C26_MemoSoundWithoutOwnConstructor == NoOwnConstructor => C26_MemoAgreesWithFreshCheck

\* The agreement of the memo with a fresh check alone.
C26_MemoAgreement ==
    \A i \in DOMAIN nodes : \A k \in Kinds :
        TypeOfN(nodes[i], k, heap).out = TypeOfN(Fresh(nodes[i]), k, heap).out

\* C27: WrapObject never having been forced, no node wraps a node: neither
\* a node returned by WrapObject, nor a node derived by navigation, removal
\* or iteration, also when a container holds a node among its values.
C27_NoNodeWrapsNode ==
    /\ \A i \in DOMAIN nodes : nodes[i].inner.t # "traverse"
    /\ last.op # "none" => \A j \in DOMAIN last.kids : last.kids[j].inner.t # "traverse"

\* The part WrapObject itself keeps: unforced, it never makes a node that
\* wraps a node.
C27_WrapObjectNeverNests ==
    last.op = "WrapObject" => nodes[last.ret.i].inner.t # "traverse"

\* The operations that derive a node from the receiver.
DerivingOps ==
    {"sub", "optionalSub", "selectFromArray", "selectFromObject",
     "selectFromObjectOptional", "selectFromMap", "selectFromMapOptional",
     "arrayGetItem", "arrayPopItem", "arrayShiftItem", "stringToInteger",
     "stringToFloat", "jsonLoad", "jsonSave"}

IsPrefix(p, q) == Len(p) <= Len(q) /\ SubSeq(q, 1, Len(p)) = p
IsStrictPrefix(p, q) == IsPrefix(p, q) /\ Len(p) < Len(q)

\* The paths of the nodes the last call derived: the returned node of a
\* deriving operation, and the nodes handed to an iteration callback.
DerivedPaths ==
    IF last.op = "none" THEN {}
    ELSE {last.kids[j].path : j \in DOMAIN last.kids}
         \cup (IF last.op \in DerivingOps /\ last.out = "ok"
               THEN {nodes[last.ret.i].path} ELSE {})

\* C28: the path of the parent is a strict prefix of the path of every node
\* derived from it, for every key (the empty string too) and every parent
\* (the root too).
C28_ParentPathIsStrictPrefix ==
    \A q \in DerivedPaths : IsStrictPrefix(nodes[last.self].path, q)

\* What holds for every key and parent: the parent's path is a prefix, and a
\* strict one unless the key is empty and the parent's path ends in "/".
C28_ParentPathIsPrefix ==
    \A q \in DerivedPaths :
        /\ IsPrefix(nodes[last.self].path, q)
        /\ \/ IsStrictPrefix(nodes[last.self].path, q)
           \/ /\ last.op \in {"sub", "optionalSub", "selectFromArray", "selectFromObject",
                              "selectFromObjectOptional", "selectFromMap",
                              "selectFromMapOptional"} \cup IterationOps
              /\ nodes[last.self].path[Len(nodes[last.self].path)] = "/"

\* The answer of the rule callback of the last call for the raw wrapped value.
RuleAnswered == RuleAnswer(last.args[1], last.before.node.inner, last.before.heap)

\* customRule(p) as described, for the answers in a set: ParameterError and
\* no call when p is not invocable; otherwise one call with the raw value,
\* ParameterError for an answer that is no boolean, the base Error for
\* false, the same node for true.
CustomRuleContract(answers) ==
    last.op = "customRule" =>
        IF ~IsCallable(last.args[1])
        THEN last.out = "ParameterError" /\ last.cb = 0
        ELSE /\ last.cb = 1
             /\ RuleAnswered \in answers =>
                    CASE RuleAnswered = Bool(TRUE) ->
                             last.out = "ok" /\ last.ret = NodeRef(last.self)
                      [] RuleAnswered = Bool(FALSE) -> last.out = "Error"
                      [] OTHER -> last.out = "ParameterError"

\* C29: customRule(p) fails with ParameterError without a call when p is not
\* invocable; otherwise it calls p once with the raw value (null too), fails
\* with ParameterError when the answer is not a strict boolean, with the base
\* Error when it is false, and returns the same node when it is true.
C29_CustomRule == CustomRuleContract({RuleAnswered})

\* The same for the answers that are no objects: true, false, null, nothing
\* returned, a number.
C29_CustomRulePrimitiveAnswers ==
    CustomRuleContract({v \in {RuleAnswered} : v.t # "object"})

ListMutators ==
    {"arrayPushItem", "arrayUnshiftItem", "arraySetItem", "arrayPopItem", "arrayShiftItem"}

\* The reference list after a mutator: append, prepend, replace at a valid
\* offset, remove last, remove first; a refused call leaves the list alone.
ReferenceAfter(op, list, args) ==
    CASE op = "arrayPushItem" -> Append(list, args[1])
      [] op = "arrayUnshiftItem" -> <<args[1]>> \o list
      [] op = "arraySetItem" ->
            IF NumberIsInteger(args[1]) /\ args[1].n + 1 \in DOMAIN list
            THEN [list EXCEPT ![args[1].n + 1] = args[2]]
            ELSE list
      [] op = "arrayPopItem" -> IF list = <<>> THEN list ELSE SubSeq(list, 1, Len(list) - 1)
      [] op = "arrayShiftItem" -> IF list = <<>> THEN list ELSE Tail(list)
      [] OTHER -> list

\* Every node wrapping an array reads as the list: arrayLength() is its
\* length, arrayGetItem(i) wraps element i for 0 <= i < length and fails with
\* IndexOutOfRangeError for the integers outside.
ReadsAsList ==
    \A i \in DOMAIN nodes :
        (nodes[i].inner.t = "object" /\ heap[nodes[i].inner.a].cls = "Array") =>
            LET list == heap[nodes[i].inner.a].items
            IN  /\ arrayLength(nodes[i], heap).out = "ok"
                /\ arrayLength(nodes[i], heap).ret = Num(Len(list))
                /\ \A k \in (0 - 2)..(Len(list) + 2) :
                       LET r == arrayGetItem(nodes[i], Num(k), heap)
                       IN  IF 0 <= k /\ k < Len(list)
                           THEN r.out = "ok" /\ r.new[1].inner = list[k + 1] /\ r.h = heap
                           ELSE r.out = "IndexOutOfRangeError"

\* Each mutator does to the array what its reference operation does to the
\* list, and touches nothing else.
MutatesAsList ==
    (last.op \in ListMutators /\ RecvIsArray) =>
        /\ ItemsAfter = ReferenceAfter(last.op, ItemsBefore, last.args)
        /\ \A a \in DOMAIN H0 : a # Recv.inner.a => heap[a] = H0[a]

\* arrayPushItem(v) directly followed by arrayPopItem() on the same node
\* returns v and restores the contents.
PushThenPop ==
    (/\ last.op = "arrayPushItem" /\ last.out = "ok" /\ RecvIsArray
     /\ last'.op = "arrayPopItem" /\ last'.self = last.self) =>
        /\ last'.out = "ok"
        /\ nodes'[last'.ret.i].inner = last.args[1]
        /\ heap' = H0

\* C30: a node wrapping an array behaves as a reference list under any
\* sequence of arrayPushItem, arrayUnshiftItem, arraySetItem, arrayPopItem
\* and arrayShiftItem: arrayLength() is the list's length, arrayGetItem(i)
\* unwraps to element i for 0 <= i < length and fails with
\* IndexOutOfRangeError for every other integer; arrayPushItem(v) followed by
\* arrayPopItem() returns v and restores the previous contents.
C30_ArrayIsReferenceList ==
    [](ReadsAsList /\ MutatesAsList) /\ [][PushThenPop]_vars

\* From [1, null]: unshift(7), push(7), pop() returns 7 and leaves [7, 1, null].
C30_Witness ==
    /\ ncalls = 3
    /\ last.op = "arrayPopItem" /\ last.out = "ok" /\ RecvIsArray
    /\ RetNode.inner = Num(7)
    /\ ItemsAfter = <<Num(7), Num(1), Null>>

====
